---- MODULE Spec2Model ----
(***************************************************************************)
(* qscan: the wrapper around the Qualys qscanner engine.                   *)
(*                                                                         *)
(* A Go string is modelled as a sequence of pieces (TLA+ strings) whose    *)
(* concatenation is the string; the empty string is <<>>.  Strings whose   *)
(* characters the code inspects (paths, file names, glob patterns) are     *)
(* written one character per piece.                                        *)
(***************************************************************************)
EXTENDS Integers, Sequences, FiniteSets, TLC

VARIABLES
    \* ---- the command (qscan sif / qscan running) ----
    cmdKind,      \* "sif" | "running" | "none"
    args,         \* positional arguments
    jsonOutput,   \* --json
    cfg,          \* config.Config
    pc,           \* position of the command's control flow
    idx,          \* index of the next target of the sif loop
    results,      \* []*ScanResult collected by the command
    exitStatus,   \* the process exit status once pc = "exited"
    ctxDone,      \* the context handed to the scan calls is cancelled
    tmpDirs,      \* existing qscan-rootfs-* directories (by number)
    tmpMade,      \* how many were created so far
    fs,           \* output directories: path -> set of file names
    fs0,          \* fs when the command started
    runtimeFound, \* apptainer or singularity is on PATH
    listFlag,     \* --list of `qscan running`
    osRelease,    \* the lines of etc/os-release under the root of the target process
    rootProbe,    \* /proc/<pid>/root of the target: "ok" | "missing" | "denied"
    cur,          \* the scan call in flight
    proc,         \* the engine subprocess of the call in flight
    hist,         \* per finished target, what the environment did to it
    \* ---- ExtractQScanner, two concurrent callers ----
    cachedPath,   \* package variable cachedPath ("" or the final path)
    finalFile,    \* the file at the final cache path
    scratch,      \* per caller: its scratch file qscanner-<random>
    caller,       \* per caller: position in ExtractQScanner, locals, return values
    \* ---- the specifications of single calls: two runs that differ in the
    \* token, one call of a function, one call of ExtractFilesystem ----
    runs

vars == <<cmdKind, args, jsonOutput, cfg, pc, idx, results, exitStatus, ctxDone,
          tmpDirs, tmpMade, fs, fs0, runtimeFound, listFlag, osRelease, rootProbe, cur, proc, hist,
          cachedPath, finalFile, scratch, caller, runs>>

cmdVars == <<cmdKind, args, jsonOutput, cfg, pc, idx, results, exitStatus, ctxDone,
             tmpDirs, tmpMade, fs, fs0, runtimeFound, listFlag, osRelease, rootProbe, cur, proc, hist>>

cacheVars == <<cachedPath, finalFile, scratch, caller>>

-----------------------------------------------------------------------------
(* Bounds *)

\* longest batch of `qscan sif`
MaxBatch == 2

\* number of blocks the engine binary is copied in
NChunks == 2

-----------------------------------------------------------------------------
(* Strings *)

\* the bytes the modelled names use, in byte order
Alphabet == <<".", "/", "0", "1", "2", "3", "4", "5", "6", "7", "8", "9",
              "a", "b", "c", "d", "e", "f", "g", "h", "i", "j", "k", "l", "m",
              "n", "o", "p", "q", "r", "s", "t", "u", "v", "w", "x", "y", "z">>

CharOrd(c) == CHOOSE i \in 1..Len(Alphabet) : Alphabet[i] = c

RECURSIVE StrLess(_, _)
\* a < b on Go strings (byte-wise), as sort.Strings orders directory names
StrLess(a, b) ==
    IF b = <<>> THEN FALSE
    ELSE IF a = <<>> THEN TRUE
    ELSE IF Head(a) = Head(b) THEN StrLess(Tail(a), Tail(b))
    ELSE CharOrd(Head(a)) < CharOrd(Head(b))

HasSuffix(s, suf) ==
    /\ Len(s) >= Len(suf)
    /\ SubSeq(s, Len(s) - Len(suf) + 1, Len(s)) = suf

\* strings.TrimSuffix
TrimSuffix(s, suf) ==
    IF HasSuffix(s, suf) THEN SubSeq(s, 1, Len(s) - Len(suf)) ELSE s

\* index of the last "/" of s, 0 when there is none
LastSlash(s) ==
    LET at == {i \in 1..Len(s) : s[i] = "/"}
    IN  IF at = {} THEN 0 ELSE CHOOSE i \in at : \A j \in at : j <= i

RECURSIVE StripSlashes(_)
StripSlashes(s) ==
    IF Len(s) > 1 /\ s[Len(s)] = "/" THEN StripSlashes(SubSeq(s, 1, Len(s) - 1))
    ELSE s

\* filepath.Base
Base(p) ==
    IF p = <<>> THEN <<".">>
    ELSE LET q == StripSlashes(p)
         IN  IF q = <<"/">> THEN q ELSE SubSeq(q, LastSlash(q) + 1, Len(q))

\* the working directory of the process
Cwd == <<"/", "b">>

\* filepath.Abs, on clean paths (no "..", no doubled separators)
Abs(p) == IF p # <<>> /\ Head(p) = "/" THEN p ELSE Cwd \o <<"/">> \o p

RECURSIVE CleanDot(_)
\* filepath.Clean, on paths whose only unclean part is a leading "./"
CleanDot(p) ==
    IF Len(p) >= 2 /\ p[1] = "." /\ p[2] = "/" THEN CleanDot(SubSeq(p, 3, Len(p)))
    ELSE p

\* filepath.Join of two non-empty elements
Join(a, b) == CleanDot(a \o <<"/">> \o b)

\* strings.TrimSpace, on pieces: white-space pieces at both ends are dropped
WhiteSpace == {" ", "\n", "\t"}

RECURSIVE TrimSpace(_)
TrimSpace(s) ==
    IF s = <<>> THEN s
    ELSE IF Head(s) \in WhiteSpace THEN TrimSpace(Tail(s))
    ELSE IF s[Len(s)] \in WhiteSpace THEN TrimSpace(SubSeq(s, 1, Len(s) - 1))
    ELSE s

RECURSIVE GlobMatch(_, _)
\* filepath.Match for patterns made of literal bytes and "*"
GlobMatch(pat, name) ==
    IF pat = <<>> THEN name = <<>>
    ELSE IF Head(pat) = "*"
         THEN \/ GlobMatch(Tail(pat), name)
              \/ (name # <<>> /\ GlobMatch(pat, Tail(name)))
    ELSE /\ name # <<>>
         /\ Head(name) = Head(pat)
         /\ GlobMatch(Tail(pat), Tail(name))

-----------------------------------------------------------------------------
(* config.Config and scanner.ScanOptions *)

\* Config.GetMode
GetMode(c) == IF c.Mode # <<>> THEN c.Mode ELSE <<"get-report">>

\* Config.GetScanTypes
GetScanTypes(c) == IF c.ScanTypes # <<>> THEN c.ScanTypes ELSE <<"pkg,fileinsight">>

\* Config.GetFormat
GetFormat(c) == c.Format

\* "./reports"
DefaultOutputDir == <<".", "/", "r", "e", "p", "o", "r", "t", "s">>

\* Config.GetOutputDir
GetOutputDir(c) == IF c.OutputDir # <<>> THEN c.OutputDir ELSE DefaultOutputDir

\* as Validate, with the POD looked at before the token
ValidatePodFirst(c) ==
    IF GetMode(c) = <<"inventory-only">> THEN <<>>
    ELSE IF c.Pod = <<>> THEN <<"Qualys POD required">>
    ELSE IF c.Token = <<>> THEN <<"Qualys access token required">>
    ELSE <<>>

\* Config.Validate: the error it returns, <<>> for nil
Validate(c) ==
    IF GetMode(c) = <<"inventory-only">> THEN <<>>
    ELSE IF c.Token = <<>> THEN <<"Qualys access token required">>
    ELSE IF c.Pod = <<>> THEN <<"Qualys POD required">>
    ELSE <<>>

\* the path ExtractQScanner returns
QScannerPath == <<"/cache/qscan/qscanner-hash">>

\* the ScanOptions literal of runSifScan, runRunningScan, runImageScan, runRepoScan
MakeOpts(c) ==
    [Token |-> c.Token, Pod |-> c.Pod, ScanTypes |-> GetScanTypes(c),
     Mode |-> GetMode(c), Format |-> GetFormat(c), OutputDir |-> GetOutputDir(c),
     QScannerPath |-> QScannerPath]

-----------------------------------------------------------------------------
(* The engine's command line and environment *)

Flag(name, value) == IF value # <<>> THEN <<name, value>> ELSE <<>>

\* as buildQScannerArgs, with the token passed as a flag
buildQScannerArgsWithToken(opts, unameOutput, outputDir) ==
    Flag(<<"--token">>, opts.Token)
    \o Flag(<<"--pod">>, opts.Pod)
    \o Flag(<<"--scan-types">>, opts.ScanTypes)
    \o Flag(<<"--mode">>, opts.Mode)
    \o Flag(<<"--format">>, opts.Format)
    \o (IF unameOutput # <<>>
        THEN << <<"--shell-commands">>, <<"uname -a=">> \o unameOutput >>
        ELSE <<>>)
    \o Flag(<<"--output-dir">>, outputDir)

\* as buildQScannerArgs, with --mode appended before --scan-types
buildQScannerArgsReordered(opts, unameOutput, outputDir) ==
    Flag(<<"--pod">>, opts.Pod)
    \o Flag(<<"--mode">>, opts.Mode)
    \o Flag(<<"--scan-types">>, opts.ScanTypes)
    \o Flag(<<"--format">>, opts.Format)
    \o (IF unameOutput # <<>>
        THEN << <<"--shell-commands">>, <<"uname -a=">> \o unameOutput >>
        ELSE <<>>)
    \o Flag(<<"--output-dir">>, outputDir)

\* buildQScannerArgs
buildQScannerArgs(opts, unameOutput, outputDir) ==
    Flag(<<"--pod">>, opts.Pod)
    \o Flag(<<"--scan-types">>, opts.ScanTypes)
    \o Flag(<<"--mode">>, opts.Mode)
    \o Flag(<<"--format">>, opts.Format)
    \o (IF unameOutput # <<>>
        THEN << <<"--shell-commands">>, <<"uname -a=">> \o unameOutput >>
        ELSE <<>>)
    \o Flag(<<"--output-dir">>, outputDir)

\* os.MkdirTemp("", "qscan-rootfs-*"): the path of directory number n
TempDirPath(n) == <<"/tmp/qscan-rootfs-", ToString(n)>>

\* the argv ScanSIF gives exec.CommandContext (without argv[0])
SifArgv(opts, osInfo, outputDir, tempDir) ==
    buildQScannerArgs(opts, osInfo, outputDir) \o << <<"rootfs">>, tempDir >>

\* fmt.Sprintf("/proc/%d/root", pid)
ProcRoot(pid) == <<"/proc/", ToString(pid), "/root">>

\* the argv ScanRunning gives exec.CommandContext
RunningArgv(opts, osInfo, outputDir, rootfs) ==
    buildQScannerArgs(opts, osInfo, outputDir)
    \o << <<"--exclude-dirs">>, <<"/proc,/sys,/dev,/run">> >>
    \o << <<"rootfs">>, rootfs >>

\* the argv RunDirect gives exec.CommandContext
DirectArgv(opts, subcommand, rest) ==
    Flag(<<"--pod">>, opts.Pod)
    \o Flag(<<"--scan-types">>, opts.ScanTypes)
    \o Flag(<<"--mode">>, opts.Mode)
    \o Flag(<<"--format">>, opts.Format)
    \o Flag(<<"--output-dir">>, opts.OutputDir)
    \o <<subcommand>>
    \o rest

\* os.Environ() of the wrapper process
OsEnviron == << <<"PATH=/usr/bin">>, <<"HOME=/root">> >>

\* cmd.Env of ScanSIF, ScanRunning and RunDirect
EngineEnv(opts) == OsEnviron \o << <<"QUALYS_ACCESS_TOKEN=">> \o opts.Token >>

-----------------------------------------------------------------------------
(* Result Collector *)

Formats == {"json", "spdx", "cyclonedx", "sarif"}

\* the glob patterns of findReports, in the order they are tried
Patterns(format) ==
    CASE format = "json" -> << <<"*", ".", "j", "s", "o", "n">> >>
      [] format = "spdx" ->
            << <<"*", "s", "p", "d", "x", "*", ".", "j", "s", "o", "n">>,
               <<"*", ".", "s", "p", "d", "x">> >>
      [] format = "cyclonedx" ->
            << <<"*", "c", "y", "c", "l", "o", "n", "e", "d", "x", "*", ".", "j", "s", "o", "n">>,
               <<"*", "c", "d", "x", "*", ".", "j", "s", "o", "n">> >>
      [] format = "sarif" ->
            << <<"*", ".", "s", "a", "r", "i", "f">>,
               <<"*", "s", "a", "r", "i", "f", "*", ".", "j", "s", "o", "n">> >>

\* filepath.Glob(dir/pattern): the names of dir that match; none when dir is missing
\* or cannot be read (Glob ignores I/O errors)
GlobNames(files, dir, pat) ==
    IF dir \in DOMAIN files THEN {n \in files[dir] : GlobMatch(pat, n)} ELSE {}

\* matches[0]: Glob returns the names of a directory in sorted order
FirstName(names) == CHOOSE n \in names : \A m \in names : m = n \/ StrLess(n, m)

\* as FirstPattern, preferring the last pattern that matches
LastPattern(files, dir, format) ==
    LET hit == {i \in 1..Len(Patterns(format)) :
                    GlobNames(files, dir, Patterns(format)[i]) # {}}
    IN  IF hit = {} THEN 0 ELSE CHOOSE i \in hit : \A j \in hit : i >= j

\* index of the first pattern of the format that matches anything, 0 when none does
FirstPattern(files, dir, format) ==
    LET hit == {i \in 1..Len(Patterns(format)) :
                    GlobNames(files, dir, Patterns(format)[i]) # {}}
    IN  IF hit = {} THEN 0 ELSE CHOOSE i \in hit : \A j \in hit : i <= j

\* findReports
findReports(files, outputDir) ==
    LET found == {f \in Formats : FirstPattern(files, outputDir, f) # 0}
    IN  [f \in found |->
            Join(outputDir,
                 FirstName(GlobNames(files, outputDir,
                                     Patterns(f)[FirstPattern(files, outputDir, f)])))]

EmptyMap == [f \in {} |-> <<>>]

-----------------------------------------------------------------------------
(* Outcome of cmd.Run and its classification *)

\* as RunError, a killed subprocess counting as one that exited with 0
RunErrorKillIgnored(p) ==
    CASE p.how = "exit" /\ p.code # 0 -> [kind |-> "ExitError", code |-> p.code, msg |-> <<>>]
      [] p.how = "nostart" -> [kind |-> "other", code |-> 0, msg |-> p.msg]
      [] OTHER -> [kind |-> "nil", code |-> 0, msg |-> <<>>]

\* what cmd.Run returns for an engine subprocess that ended as `p`:
\* nil, an *exec.ExitError, or another error (the subprocess never started, or it
\* exited with 0 after the kill of the cancelled context had been sent: Wait then
\* reports the context's error)
RunError(p) ==
    CASE p.how = "exit" /\ p.code = 0 -> [kind |-> "nil", code |-> 0, msg |-> <<>>]
      [] p.how = "exit" /\ p.code # 0 -> [kind |-> "ExitError", code |-> p.code, msg |-> <<>>]
      [] p.how = "signal" -> [kind |-> "ExitError", code |-> -1, msg |-> <<>>]
      [] p.how = "nostart" -> [kind |-> "other", code |-> 0, msg |-> p.msg]
      [] p.how = "ctxerr" -> [kind |-> "other", code |-> 0, msg |-> <<"context canceled">>]

\* the err != nil block of ScanSIF and ScanRunning, applied to the result r
ClassifyNoCode(r, err) ==
    CASE err.kind = "nil" -> r
      [] err.kind = "ExitError" -> [r EXCEPT !.ExitCode = err.code]
      [] err.kind = "other" -> [r EXCEPT !.Error = err.msg]

ClassifyFlat(r, err) ==
    CASE err.kind = "nil" -> r
      [] err.kind = "ExitError" -> [r EXCEPT !.ExitCode = 1]
      [] err.kind = "other" -> [r EXCEPT !.ExitCode = 1, !.Error = err.msg]

Classify(r, err) ==
    CASE err.kind = "nil" -> r
      [] err.kind = "ExitError" -> [r EXCEPT !.ExitCode = err.code]
      [] err.kind = "other" -> [r EXCEPT !.ExitCode = 1, !.Error = err.msg]

\* the ScanResult literal ScanSIF and ScanRunning start from
NewResult(target, type) ==
    [Target |-> target, Type |-> type, ExitCode |-> 0, Error |-> <<>>,
     OSInfo |-> <<>>, Reports |-> EmptyMap]

\* the ScanResult the command builds when the scan call returned an error
ErrorResult(target, type, err) ==
    [Target |-> target, Type |-> type, ExitCode |-> 1, Error |-> err,
     OSInfo |-> <<>>, Reports |-> EmptyMap]

-----------------------------------------------------------------------------
(* The environment of the commands *)

\* image paths given to `qscan sif`: SifA and SifRel (relative to the working
\* directory /b) are different files with the base name x.sif; SifMissing does not exist
SifA == <<"/", "a", "/", "x", ".", "s", "i", "f">>
SifRel == <<"x", ".", "s", "i", "f">>
SifMissing == <<"/", "m", ".", "s", "i", "f">>

SifPaths == {SifA, SifRel, SifMissing}

\* os.Stat(absPath) succeeds
ExistingFiles == {SifA, <<"/", "b", "/", "x", ".", "s", "i", "f">>}

\* images in which `uname -a` cannot be run
NoUname == {<<"/", "b", "/", "x", ".", "s", "i", "f">>}

\* stdout of `uname -a` inside an image
UnameText == <<"Linux host 5.15 x86_64", "\n">>

\* exit codes of the engine, and the sets of files one run of it writes
EngineExitCodes == {0, 3}
ReportFile == <<"r", ".", "j", "s", "o", "n">>
StaleFile == <<"o", ".", "j", "s", "o", "n">>
EngineWrites == {{}, {ReportFile}}

\* the output directories before the command runs: none, or one left by an earlier run
NoDirs == [d \in {} |-> {}]
StaleDir == <<"r", "e", "p", "o", "r", "t", "s", "/", "x">>
InitialFs == {NoDirs, [d \in {StaleDir} |-> {StaleFile}]}

\* configurations: complete, token missing
Configs ==
    { [Token |-> <<"tokA">>, Pod |-> <<"US1">>, Mode |-> <<>>, Format |-> <<"json">>,
       ScanTypes |-> <<>>, OutputDir |-> <<>>],
      [Token |-> <<>>, Pod |-> <<"US1">>, Mode |-> <<>>, Format |-> <<>>,
       ScanTypes |-> <<>>, OutputDir |-> <<>>] }

\* targets given to `qscan running`
RunTargets == {<<"4", "2">>, <<"4", "1">>, <<"7">>, <<"x">>, <<"q">>, <<"u">>}

\* /proc/<pid> exists
LivePids == {41, 42, 43, 44}

\* what process.Processes() and Cmdline() give: a shell and three containers
ProcessTable ==
    << [Pid |-> 41, Cmdline |-> <<"b", "a", "s", "h">>],
       [Pid |-> 42, Cmdline |-> <<"a", "p", "p", "t", "a", "i", "n", "e", "r", " ",
                                  "r", "u", "n", " ", "x", ".", "s", "i", "f">>],
       [Pid |-> 43, Cmdline |-> <<"a", "p", "p", "t", "a", "i", "n", "e", "r", " ",
                                  "e", "x", "e", "c", " ", "X", ".", "s", "i", "f">>],
       [Pid |-> 44, Cmdline |-> <<"a", "p", "p", "t", "a", "i", "n", "e", "r", " ",
                                  "s", "h", "e", "l", "l", " ", "y", ".", "s", "i", "f">>] >>

\* contents of <root>/etc/os-release, line by line; <<>> stands for a missing file
OsReleaseFiles ==
    { <<>>,
      << <<"NAME=", "\"", "Ubuntu", "\"">>,
         <<"PRETTY_NAME=", "\"", "Ubuntu 22.04.1 LTS", "\"">> >>,
      << <<"ID=", "alpine">>, <<"NAME=", "Alpine">> >>,
      << <<"ID=", "scratch">>, <<>> >> }

-----------------------------------------------------------------------------
(* Target resolution of `qscan running` *)

Digits == <<"0", "1", "2", "3", "4", "5", "6", "7", "8", "9">>

IsDigit(c) == \E i \in 1..10 : Digits[i] = c

DigitVal(c) == (CHOOSE i \in 1..10 : Digits[i] = c) - 1

RECURSIVE DigitsVal(_)
DigitsVal(s) == IF s = <<>> THEN 0 ELSE 10 * DigitsVal(SubSeq(s, 1, Len(s) - 1)) + DigitVal(s[Len(s)])

\* strconv.Atoi: [ok, val]
Atoi(s) ==
    LET body == IF s # <<>> /\ Head(s) \in {"+", "-"} THEN Tail(s) ELSE s
    IN  IF body # <<>> /\ \A i \in 1..Len(body) : IsDigit(body[i])
        THEN [ok |-> TRUE,
              val |-> IF Head(s) = "-" THEN 0 - DigitsVal(body) ELSE DigitsVal(body)]
        ELSE [ok |-> FALSE, val |-> 0]

UpperCase == <<"A", "B", "C", "D", "E", "F", "G", "H", "I", "J", "K", "L", "M",
               "N", "O", "P", "Q", "R", "S", "T", "U", "V", "W", "X", "Y", "Z">>
LowerCase == <<"a", "b", "c", "d", "e", "f", "g", "h", "i", "j", "k", "l", "m",
               "n", "o", "p", "q", "r", "s", "t", "u", "v", "w", "x", "y", "z">>

\* strings.ToLower
ToLower(s) ==
    [i \in 1..Len(s) |->
        IF \E k \in 1..26 : UpperCase[k] = s[i]
        THEN LowerCase[CHOOSE k \in 1..26 : UpperCase[k] = s[i]]
        ELSE s[i]]

\* strings.Contains
Contains(s, sub) ==
    \E i \in 0..(Len(s) - Len(sub)) : SubSeq(s, i + 1, i + Len(sub)) = sub

\* the source's 200 and 3: the length Command is cut to, and the length of "..."
MaxCommandLen == 200
EllipsisLen == 3

\* truncateString
truncateString(str, maxLen) ==
    IF Len(str) <= maxLen THEN str
    ELSE SubSeq(str, 1, maxLen - EllipsisLen) \o <<".", ".", ".">>

\* isApptainerProcess
isApptainerProcess(cmdline) ==
    LET lower == ToLower(cmdline)
        has(w) == Contains(lower, w)
    IN  \/ /\ has(<<"a", "p", "p", "t", "a", "i", "n", "e", "r">>)
              \/ has(<<"s", "i", "n", "g", "u", "l", "a", "r", "i", "t", "y">>)
           /\ \/ has(<<" ", "r", "u", "n", " ">>)
              \/ has(<<" ", "e", "x", "e", "c", " ">>)
              \/ has(<<" ", "s", "h", "e", "l", "l", " ">>)
              \/ has(<<" ", "i", "n", "s", "t", "a", "n", "c", "e", " ">>)
        \/ /\ has(<<"s", "t", "a", "r", "t", "e", "r">>)
           /\ \/ Contains(cmdline, <<".", "s", "i", "f">>)
              \/ has(<<"s", "i", "n", "g", "u", "l", "a", "r", "i", "t", "y">>)
              \/ has(<<"a", "p", "p", "t", "a", "i", "n", "e", "r">>)

\* as ContainerEntries, with two entries for each process
ContainerEntriesTwice(p) ==
    << [PID |-> p.Pid, Command |-> truncateString(p.Cmdline, MaxCommandLen)],
       [PID |-> p.Pid, Command |-> truncateString(p.Cmdline, MaxCommandLen)] >>

\* what the loop body of findContainers appends for process p
ContainerEntries(p) ==
    IF isApptainerProcess(p.Cmdline)
    THEN << [PID |-> p.Pid, Command |-> truncateString(p.Cmdline, MaxCommandLen)] >>
    ELSE <<>>

RECURSIVE findContainers(_)
\* findContainers over the processes procs, in their order
findContainers(procs) ==
    IF procs = <<>> THEN <<>>
    ELSE ContainerEntries(Head(procs)) \o findContainers(Tail(procs))

\* what findContainers returns
Discovered == findContainers(ProcessTable)

\* container.FindContainersByName, given what findContainers returned
FindContainersByName(all, pattern) ==
    SelectSeq(all, LAMBDA c : Contains(ToLower(c.Command), ToLower(pattern)))

\* the lines resolvePID prints when more than one container matches
MultipleNote(target, found) ==
    << <<"Multiple containers found matching '">> \o target \o <<"':">> >>
    \o [i \in 1..Len(found) |-> <<"  PID ", ToString(found[i].PID), ": ">> \o found[i].Command]
    \o << <<"Using first match (PID ", ToString(found[1].PID), ")">> >>

\* as resolvePID, taking the last match
resolvePIDLast(target, all) ==
    LET found == FindContainersByName(all, target)
    IN  IF Len(found) = 0
        THEN [pid |-> 0, err |-> <<"no running container found matching: ">> \o target,
              note |-> <<>>]
        ELSE [pid |-> found[Len(found)].PID, err |-> <<>>,
              note |-> IF Len(found) > 1 THEN MultipleNote(target, found) ELSE <<>>]

\* as resolvePID, a number being accepted only when it is the PID of a discovered
\* container
resolvePIDContainersOnly(target, all) ==
    LET n == Atoi(target)
    IN  IF n.ok /\ (\E k \in 1..Len(all) : all[k].PID = n.val)
        THEN [pid |-> n.val, err |-> <<>>, note |-> <<>>]
        ELSE [pid |-> 0, err |-> <<"no running container found matching: ">> \o target,
              note |-> <<>>]

\* resolvePID: [pid, err], and the lines it printed
resolvePID(target, all) ==
    LET n == Atoi(target)
        found == FindContainersByName(all, target)
    IN  IF n.ok
        THEN IF n.val \in LivePids
             THEN [pid |-> n.val, err |-> <<>>, note |-> <<>>]
             ELSE [pid |-> 0, err |-> <<"process ", ToString(n.val), " does not exist">>,
                   note |-> <<>>]
        ELSE IF Len(found) = 0
             THEN [pid |-> 0, err |-> <<"no running container found matching: ">> \o target,
                   note |-> <<>>]
             ELSE [pid |-> found[1].PID, err |-> <<>>,
                   note |-> IF Len(found) > 1 THEN MultipleNote(target, found) ELSE <<>>]

\* strings.Trim(value, "\"") on pieces
RECURSIVE TrimQuotes(_)
TrimQuotes(s) ==
    IF s = <<>> THEN s
    ELSE IF Head(s) = "\"" THEN TrimQuotes(Tail(s))
    ELSE IF s[Len(s)] = "\"" THEN TrimQuotes(SubSeq(s, 1, Len(s) - 1))
    ELSE s

\* the first line of `lines` that starts with `prefix`, 0 when there is none
FirstLineWith(lines, prefix) ==
    LET at == {i \in 1..Len(lines) : lines[i] # <<>> /\ Head(lines[i]) = prefix}
    IN  IF at = {} THEN 0 ELSE CHOOSE i \in at : \A j \in at : i <= j

\* as getOSInfo, with NAME looked for before PRETTY_NAME
getOSInfoNameFirst(lines) ==
    IF FirstLineWith(lines, "NAME=") # 0
    THEN <<"Linux ">> \o TrimQuotes(Tail(lines[FirstLineWith(lines, "NAME=")]))
    ELSE IF FirstLineWith(lines, "PRETTY_NAME=") # 0
    THEN <<"Linux ">> \o TrimQuotes(Tail(lines[FirstLineWith(lines, "PRETTY_NAME=")]))
    ELSE <<"Linux unknown">>

\* getOSInfo, given the lines of os-release (<<>> when it cannot be read)
getOSInfo(lines) ==
    IF FirstLineWith(lines, "PRETTY_NAME=") # 0
    THEN <<"Linux ">> \o TrimQuotes(Tail(lines[FirstLineWith(lines, "PRETTY_NAME=")]))
    ELSE IF FirstLineWith(lines, "NAME=") # 0
    THEN <<"Linux ">> \o TrimQuotes(Tail(lines[FirstLineWith(lines, "NAME=")]))
    ELSE <<"Linux unknown">>

-----------------------------------------------------------------------------
(* The commands `qscan sif` and `qscan running` *)

NoCall ==
    [target |-> <<>>, tempDir |-> 0, outputDir |-> <<>>, result |-> NewResult(<<>>, ""),
     err |-> <<>>, pid |-> 0, note |-> <<>>,
     beh |-> [reached |-> "", how |-> "", code |-> 0, msg |-> <<>>, files |-> {},
              err |-> <<>>]]

NoProc == [state |-> "none", how |-> "", code |-> 0, msg |-> <<>>, argv |-> <<>>, env |-> <<>>]

\* what the environment did to one scan call: the step it reached ("stat",
\* "mkdirtemp", "extract", "mkdirall", "engine"), how the engine ended, the files the
\* engine wrote, and the error the call returned
Behaviour(reached) ==
    [reached |-> reached, how |-> "", code |-> 0, msg |-> <<>>, files |-> {},
     err |-> <<>>]

\* as UnameOSInfo, without the fallback for a failed probe
UnameOSInfoNoFallback(unameOutput, execOK) ==
    TrimSpace(IF execOK THEN unameOutput ELSE <<>>)

\* result.OSInfo of ScanSIF, from the stdout of runtime.Exec and whether it succeeded
UnameOSInfo(unameOutput, execOK) ==
    TrimSpace(IF execOK THEN unameOutput ELSE <<"Linux unknown">>)

\* the OS description ScanSIF derives from `uname -a` run inside the image
SifOSInfo(absPath) == UnameOSInfo(UnameText, absPath \notin NoUname)

\* os.MkdirAll(dir): the directory exists afterwards, its content is kept
MkdirAll(files, dir) ==
    IF dir \in DOMAIN files THEN files ELSE (dir :> {}) @@ files

\* the engine writes `names` into dir
WriteFiles(files, dir, names) == [files EXCEPT ![dir] = @ \cup names]

\* the per-target output directory of ScanSIF
SifOutputDir(opts, sifPath) ==
    Join(IF opts.OutputDir = <<>> THEN DefaultOutputDir ELSE opts.OutputDir,
         TrimSuffix(Base(sifPath), <<".", "s", "i", "f">>))

\* the output directory of ScanRunning
RunningOutputDir(opts, pid) ==
    Join(IF opts.OutputDir = <<>> THEN DefaultOutputDir ELSE opts.OutputDir,
         <<"pid-", ToString(pid)>>)

\* the deferred os.RemoveAll(tempDir) of ScanSIF
RemoveAllSkipped(dirs, d) == dirs

RemoveAll(dirs, d) == dirs \ {d}

\* the status the operating system reports for os.Exit(code)
ExitStatusOf(code) == code % 256

\* the first non-zero ExitCode of rs, 0 when there is none (the loop before return nil)
FirstNonZero(rs) ==
    LET at == {i \in 1..Len(rs) : rs[i].ExitCode # 0}
    IN  IF at = {} THEN 0 ELSE rs[CHOOSE i \in at : \A j \in at : i <= j].ExitCode

\* the batches of at most n image paths
Batches(n) == UNION {[1..k -> SifPaths] : k \in 1..n}

\* the state when the command is entered, for `qscan sif` with one of `batches`
\* or (when withRunning) for `qscan running`
InitCmd(batches, withRunning) ==
    /\ cmdKind \in IF withRunning THEN {"sif", "running"} ELSE {"sif"}
    /\ args \in IF cmdKind = "sif"
                THEN batches
                ELSE {<<>>} \cup {<<t>> : t \in RunTargets}
    /\ jsonOutput \in BOOLEAN
    /\ cfg \in Configs
    /\ pc = "start"
    /\ idx = 1
    /\ results = <<>>
    /\ exitStatus = 0
    /\ ctxDone = FALSE
    /\ tmpDirs = {}
    /\ tmpMade = 0
    /\ fs0 \in InitialFs
    /\ runtimeFound \in IF cmdKind = "sif" THEN BOOLEAN ELSE {TRUE}
    /\ listFlag \in IF cmdKind = "running" THEN BOOLEAN ELSE {FALSE}
    /\ osRelease \in IF cmdKind = "running" /\ ~listFlag /\ args # <<>>
                     THEN OsReleaseFiles ELSE {<<>>}
    /\ rootProbe \in IF cmdKind = "running" /\ ~listFlag /\ args # <<>>
                     THEN {"ok", "missing", "denied"} ELSE {"ok"}
    /\ rootProbe # "ok" => osRelease = <<>>
    /\ fs = fs0
    /\ cur = NoCall
    /\ proc = NoProc
    /\ hist = <<>>

\* the command returns an error to main (os.Exit(1)) or nil (status 0)
Exit(status) ==
    /\ pc' = "exited"
    /\ exitStatus' = status

\* as SifStart, without the call of Validate
SifStartUnvalidated ==
    /\ cmdKind = "sif" /\ pc = "start"
    /\ \E qscannerOK \in BOOLEAN :
          IF ~qscannerOK \/ ~runtimeFound
          THEN Exit(1)
          ELSE pc' = "loop" /\ UNCHANGED exitStatus
    /\ UNCHANGED <<cacheVars, runs>>
    /\ UNCHANGED <<cmdKind, args, jsonOutput, cfg, idx, results, ctxDone, tmpDirs,
                   tmpMade, fs, fs0, runtimeFound, listFlag, osRelease, rootProbe, cur, proc, hist>>

\* runSifScan up to the loop: Validate, ExtractQScanner, DetectRuntime
SifStart ==
    /\ cmdKind = "sif" /\ pc = "start"
    /\ \E qscannerOK \in BOOLEAN :
          IF Validate(cfg) # <<>> \/ ~qscannerOK \/ ~runtimeFound
          THEN Exit(1)
          ELSE pc' = "loop" /\ UNCHANGED exitStatus
    /\ UNCHANGED <<cacheVars, runs>>
    /\ UNCHANGED <<cmdKind, args, jsonOutput, cfg, idx, results, ctxDone, tmpDirs,
                   tmpMade, fs, fs0, runtimeFound, listFlag, osRelease, rootProbe, cur, proc, hist>>

\* as SifReturn, but the loop is left at the first error
SifReturnBreak(r, err, tempDir, beh) ==
    /\ tmpDirs' = IF tempDir # 0 THEN RemoveAll(tmpDirs, tempDir) ELSE tmpDirs
    /\ results' = Append(results,
                         IF err # <<>> THEN ErrorResult(args[idx], "sif", err) ELSE r)
    /\ hist' = Append(hist, [beh EXCEPT !.err = err])
    /\ idx' = IF err # <<>> THEN Len(args) + 1 ELSE idx + 1
    /\ pc' = "loop"
    /\ cur' = NoCall
    /\ proc' = NoProc

\* as SifReturn, the directory being removed only when ScanSIF returns no error
SifReturnKeepOnError(r, err, tempDir, beh) ==
    /\ tmpDirs' = IF tempDir # 0 /\ err = <<>> THEN RemoveAll(tmpDirs, tempDir) ELSE tmpDirs
    /\ results' = Append(results,
                         IF err # <<>> THEN ErrorResult(args[idx], "sif", err) ELSE r)
    /\ hist' = Append(hist, [beh EXCEPT !.err = err])
    /\ idx' = idx + 1
    /\ pc' = "loop"
    /\ cur' = NoCall
    /\ proc' = NoProc

\* ScanSIF returns (r, err): the deferred RemoveAll runs, then runSifScan keeps the
\* result or replaces it by the error result, and goes on with the next path
SifReturn(r, err, tempDir, beh) ==
    /\ tmpDirs' = IF tempDir # 0 THEN RemoveAll(tmpDirs, tempDir) ELSE tmpDirs
    /\ results' = Append(results,
                         IF err # <<>> THEN ErrorResult(args[idx], "sif", err) ELSE r)
    /\ hist' = Append(hist, [beh EXCEPT !.err = err])
    /\ idx' = idx + 1
    /\ pc' = "loop"
    /\ cur' = NoCall
    /\ proc' = NoProc

\* ScanSIF from its entry to the deferred RemoveAll being registered
SifBegin ==
    /\ cmdKind = "sif" /\ pc = "loop" /\ idx <= Len(args)
    /\ \E mkdirTempOK \in BOOLEAN :
          LET target == args[idx]
              absPath == Abs(target)
          IN  IF absPath \notin ExistingFiles
              THEN /\ mkdirTempOK
                   /\ SifReturn(NewResult(target, "sif"),
                                <<"SIF file not found: ">> \o absPath, 0,
                                Behaviour("stat"))
                   /\ UNCHANGED tmpMade
              ELSE IF ~mkdirTempOK
              THEN /\ SifReturn(NewResult(target, "sif"),
                                <<"failed to create temp directory">>, 0,
                                Behaviour("mkdirtemp"))
                   /\ UNCHANGED tmpMade
              ELSE /\ tmpMade' = tmpMade + 1
                   /\ tmpDirs' = tmpDirs \cup {tmpMade + 1}
                   /\ cur' = [NoCall EXCEPT !.target = target, !.tempDir = tmpMade + 1,
                                            !.result = NewResult(target, "sif")]
                   /\ pc' = "extract"
                   /\ UNCHANGED <<results, hist, idx, proc>>
    /\ UNCHANGED <<cacheVars, runs>>
    /\ UNCHANGED <<cmdKind, args, jsonOutput, cfg, exitStatus, ctxDone, fs, fs0, runtimeFound, listFlag, osRelease, rootProbe>>

\* cmd.Start of exec.CommandContext: fails when the context is already done or the
\* binary cannot be executed; otherwise the subprocess runs
StartEngine(argv, env, startOK) ==
    IF ctxDone
    THEN [NoProc EXCEPT !.state = "exited", !.how = "nostart",
                        !.msg = <<"context canceled">>, !.argv = argv, !.env = env]
    ELSE IF ~startOK
    THEN [NoProc EXCEPT !.state = "exited", !.how = "nostart",
                        !.msg = <<"fork/exec: no such file or directory">>,
                        !.argv = argv, !.env = env]
    ELSE [NoProc EXCEPT !.state = "running", !.argv = argv, !.env = env]

\* ScanSIF from ExtractFilesystem to the start of the engine
SifExtract ==
    /\ cmdKind = "sif" /\ pc = "extract"
    /\ \E extractOK \in BOOLEAN, mkdirAllOK \in BOOLEAN, startOK \in BOOLEAN :
          LET opts == MakeOpts(cfg)
              osInfo == SifOSInfo(Abs(cur.target))
              outputDir == SifOutputDir(opts, cur.target)
              argv == SifArgv(opts, osInfo, outputDir, TempDirPath(cur.tempDir))
          IN  IF ~extractOK
              THEN /\ mkdirAllOK /\ startOK
                   /\ SifReturn(cur.result, <<"failed to extract filesystem">>, cur.tempDir,
                                Behaviour("extract"))
                   /\ UNCHANGED fs
              ELSE IF ~mkdirAllOK
              THEN /\ startOK
                   /\ SifReturn([cur.result EXCEPT !.OSInfo = osInfo],
                                <<"failed to create output directory">>, cur.tempDir,
                                Behaviour("mkdirall"))
                   /\ UNCHANGED fs
              ELSE /\ fs' = MkdirAll(fs, outputDir)
                   /\ cur' = [cur EXCEPT !.outputDir = outputDir,
                                         !.result = [cur.result EXCEPT !.OSInfo = osInfo],
                                         !.beh = Behaviour("engine")]
                   /\ proc' = StartEngine(argv, EngineEnv(opts), startOK)
                   /\ pc' = "running"
                   /\ UNCHANGED <<results, hist, idx, tmpDirs>>
    /\ UNCHANGED <<cacheVars, runs>>
    /\ UNCHANGED <<cmdKind, args, jsonOutput, cfg, exitStatus, ctxDone, tmpMade, fs0, runtimeFound, listFlag, osRelease, rootProbe>>

\* the engine writes its reports and exits
EngineExit ==
    /\ pc = "running" /\ proc.state = "running"
    /\ \E code \in EngineExitCodes, files \in EngineWrites :
          /\ fs' = WriteFiles(fs, cur.outputDir, files)
          /\ proc' = [proc EXCEPT !.state = "exited", !.how = "exit", !.code = code]
          /\ cur' = [cur EXCEPT !.beh.files = files]
    /\ UNCHANGED <<cacheVars, runs>>
    /\ UNCHANGED <<cmdKind, args, jsonOutput, cfg, pc, idx, results, exitStatus, ctxDone,
                   tmpDirs, tmpMade, fs0, runtimeFound, listFlag, osRelease, rootProbe, hist>>

\* as EngineKill for a subprocess that is not bound to the context
EngineNotKilled == FALSE /\ UNCHANGED vars

\* how a subprocess ends once the kill has been sent: by the signal, or by its own
\* exit with 0 just before the signal takes effect
KillOutcomes == {"signal", "ctxerr"}

\* the context is done while the engine runs: exec.CommandContext kills it
EngineKill ==
    /\ pc = "running" /\ proc.state = "running" /\ ctxDone
    /\ \E files \in EngineWrites, how \in KillOutcomes :
          /\ fs' = WriteFiles(fs, cur.outputDir, files)
          /\ proc' = [proc EXCEPT !.state = "exited", !.how = how]
          /\ cur' = [cur EXCEPT !.beh.files = files]
    /\ UNCHANGED <<cacheVars, runs>>
    /\ UNCHANGED <<cmdKind, args, jsonOutput, cfg, pc, idx, results, exitStatus, ctxDone,
                   tmpDirs, tmpMade, fs0, runtimeFound, listFlag, osRelease, rootProbe, hist>>

\* the caller of the scan cancels the context
CtxCancel ==
    /\ pc \in {"extract", "running", "resolve"} /\ ~ctxDone
    /\ ctxDone' = TRUE
    /\ UNCHANGED <<cacheVars, runs>>
    /\ UNCHANGED <<cmdKind, args, jsonOutput, cfg, pc, idx, results, exitStatus,
                   tmpDirs, tmpMade, fs, fs0, runtimeFound, listFlag, osRelease, rootProbe, cur, proc, hist>>

\* the rest of a scan call once cmd.Run has returned: classification and findReports
Finished(files, r, p, outputDir) ==
    [Classify(r, RunError(p)) EXCEPT !.Reports = findReports(files, outputDir)]

\* ScanSIF from the return of cmd.Run to its own return
SifFinish ==
    /\ cmdKind = "sif" /\ pc = "running" /\ proc.state = "exited"
    /\ SifReturn(Finished(fs, cur.result, proc, cur.outputDir), <<>>, cur.tempDir,
                 [cur.beh EXCEPT !.how = proc.how, !.code = proc.code, !.msg = proc.msg])
    /\ UNCHANGED <<cacheVars, runs>>
    /\ UNCHANGED <<cmdKind, args, jsonOutput, cfg, exitStatus, ctxDone, tmpMade, fs, fs0, runtimeFound, listFlag, osRelease, rootProbe>>

\* runSifScan after the loop: PrintJSON, or PrintTable and the exit-code loop
SifRender ==
    /\ cmdKind = "sif" /\ pc = "loop" /\ idx > Len(args)
    /\ IF jsonOutput THEN Exit(0) ELSE Exit(ExitStatusOf(FirstNonZero(results)))
    /\ UNCHANGED <<cacheVars, runs>>
    /\ UNCHANGED <<cmdKind, args, jsonOutput, cfg, idx, results, ctxDone, tmpDirs,
                   tmpMade, fs, fs0, runtimeFound, listFlag, osRelease, rootProbe, cur, proc, hist>>

\* runRunningScan up to the call of ScanRunning
RunningStart ==
    /\ cmdKind = "running" /\ pc = "start"
    /\ \E listOK \in BOOLEAN, qscannerOK \in BOOLEAN :
          IF listFlag
          THEN qscannerOK /\ Exit(IF listOK THEN 0 ELSE 1)
          ELSE IF Len(args) = 0 \/ Validate(cfg) # <<>> \/ ~qscannerOK
          THEN listOK /\ Exit(1)
          ELSE listOK /\ pc' = "resolve" /\ UNCHANGED exitStatus
    /\ UNCHANGED <<cacheVars, runs>>
    /\ UNCHANGED <<cmdKind, args, jsonOutput, cfg, idx, results, ctxDone, tmpDirs,
                   tmpMade, fs, fs0, runtimeFound, listFlag, osRelease, rootProbe, cur, proc, hist>>

\* ScanRunning, having resolved res, returns (r, err) to runRunningScan
RunningReturn(res, r, err) ==
    /\ cur' = [cur EXCEPT !.result = r, !.err = err, !.pid = res.pid, !.note = res.note,
                          !.beh.how = proc.how,
                          !.beh.code = proc.code, !.beh.msg = proc.msg]
    /\ proc' = NoProc
    /\ pc' = "render"

\* as ProbeError, without the stat of <root>/etc
ProbeErrorRootOnly(pid) ==
    IF rootProbe = "missing"
    THEN <<"process ", ToString(pid), " does not exist">>
    ELSE <<>>

\* the two os.Stat checks of ScanRunning: the error it returns, <<>> when both pass.
\* The first fails only for a root that does not exist; any failure of the stat of
\* <root>/etc fails the second
ProbeError(pid) ==
    IF rootProbe = "missing"
    THEN <<"process ", ToString(pid), " does not exist">>
    ELSE IF rootProbe = "denied"
    THEN <<"cannot access ">> \o ProcRoot(pid) \o <<": permission denied">>
    ELSE <<>>

\* ScanRunning from its entry to the start of the engine
RunningBegin ==
    /\ cmdKind = "running" /\ pc = "resolve"
    /\ \E discoveryOK \in BOOLEAN, mkdirAllOK \in BOOLEAN, startOK \in BOOLEAN :
          LET target == args[1]
              opts == MakeOpts(cfg)
              r0 == NewResult(target, "running")
              res == IF ~Atoi(target).ok /\ ~discoveryOK
                     THEN [pid |-> 0, err |-> <<"failed to list processes">>, note |-> <<>>]
                     ELSE resolvePID(target, Discovered)
              rootfs == ProcRoot(res.pid)
              osInfo == getOSInfo(osRelease)
              outputDir == RunningOutputDir(opts, res.pid)
              argv == RunningArgv(opts, osInfo, outputDir, rootfs)
          IN  IF res.err # <<>>
              THEN RunningReturn(res, r0, res.err) /\ UNCHANGED fs
              ELSE IF ProbeError(res.pid) # <<>>
              THEN RunningReturn(res, r0, ProbeError(res.pid)) /\ UNCHANGED fs
              ELSE IF ~mkdirAllOK
              THEN RunningReturn(res, [r0 EXCEPT !.OSInfo = osInfo],
                                 <<"failed to create output directory">>)
                   /\ UNCHANGED fs
              ELSE /\ fs' = MkdirAll(fs, outputDir)
                   /\ cur' = [NoCall EXCEPT !.target = target, !.outputDir = outputDir,
                                            !.pid = res.pid, !.note = res.note,
                                            !.result = [r0 EXCEPT !.OSInfo = osInfo],
                                            !.beh = Behaviour("engine")]
                   /\ proc' = StartEngine(argv, EngineEnv(opts), startOK)
                   /\ pc' = "running"
    /\ UNCHANGED <<cacheVars, runs>>
    /\ UNCHANGED <<cmdKind, args, jsonOutput, cfg, idx, results, exitStatus, ctxDone,
                   tmpDirs, tmpMade, fs0, runtimeFound, listFlag, osRelease, rootProbe, hist>>

\* ScanRunning from the return of cmd.Run to its own return
RunningFinish ==
    /\ cmdKind = "running" /\ pc = "running" /\ proc.state = "exited"
    /\ RunningReturn(cur, Finished(fs, cur.result, proc, cur.outputDir), <<>>)
    /\ UNCHANGED <<cacheVars, runs>>
    /\ UNCHANGED <<cmdKind, args, jsonOutput, cfg, idx, results, exitStatus, ctxDone,
                   tmpDirs, tmpMade, fs, fs0, runtimeFound, listFlag, osRelease, rootProbe, hist>>

\* runRunningScan after ScanRunning has returned
RunningRender ==
    /\ cmdKind = "running" /\ pc = "render"
    /\ IF cur.err # <<>>
       THEN IF jsonOutput
            THEN /\ results' = <<ErrorResult(args[1], "running", cur.err)>>
                 /\ Exit(0)
            ELSE /\ results' = results
                 /\ Exit(1)
       ELSE /\ results' = <<cur.result>>
            /\ IF jsonOutput THEN Exit(0) ELSE Exit(ExitStatusOf(cur.result.ExitCode))
    /\ UNCHANGED <<cacheVars, runs>>
    /\ UNCHANGED <<cmdKind, args, jsonOutput, cfg, idx, ctxDone, tmpDirs,
                   tmpMade, fs, fs0, runtimeFound, listFlag, osRelease, rootProbe, cur, proc, hist>>

\* the variables of the other specifications, unused here
IdleCache ==
    /\ cachedPath = <<>>
    /\ finalFile = <<>>
    /\ scratch = <<>>
    /\ caller = <<>>

IdleRuns == runs = <<>>

Init == InitCmd(Batches(MaxBatch), TRUE) /\ IdleCache /\ IdleRuns

NextCmd ==
    \/ SifStart
    \/ SifBegin
    \/ SifExtract
    \/ EngineExit
    \/ EngineKill
    \/ CtxCancel
    \/ SifFinish
    \/ SifRender
    \/ RunningStart
    \/ RunningBegin
    \/ RunningFinish
    \/ RunningRender

Next == NextCmd

Spec == Init /\ [][Next]_vars

\* `qscan sif` alone, over batches of at most MaxIndepBatch paths of which at least
\* one does not exist
MaxIndepBatch == 3

BatchesWithMissing ==
    {b \in Batches(MaxIndepBatch) : \E k \in 1..Len(b) : Abs(b[k]) \notin ExistingFiles}

InitBatch == InitCmd(BatchesWithMissing, FALSE) /\ IdleCache /\ IdleRuns

NextBatch ==
    \/ SifStart
    \/ SifBegin
    \/ SifExtract
    \/ EngineExit
    \/ EngineKill
    \/ CtxCancel
    \/ SifFinish
    \/ SifRender

SpecBatch == InitBatch /\ [][NextBatch]_vars

\* The commands under the scheduling the Go runtime gives them: a cancelled context
\* kills the engine (the goroutine exec.CommandContext starts), a finished engine
\* lets cmd.Run return and the scan call run to its end.  Nothing
\* makes the engine exit by itself, and nothing makes a caller cancel.
ScanProgress == EngineKill \/ SifFinish \/ RunningFinish

Fairness == WF_vars(ScanProgress)

\* longest batch under SpecLive
MaxLiveBatch == 1

InitLive == InitCmd(Batches(MaxLiveBatch), TRUE) /\ IdleCache /\ IdleRuns

SpecLive == InitLive /\ [][Next]_vars /\ Fairness

-----------------------------------------------------------------------------
(* embedded.ExtractQScanner, called concurrently *)

\* number of concurrent callers
NCallers == 2

Callers == 1..NCallers

AllChunks == 1..NChunks

\* a file: whether it exists, whether it has an execute bit, which of its blocks hold
\* the engine's bytes, and which inode it is
NoFile == [exists |-> FALSE, exec |-> FALSE, data |-> {}, id |-> <<"none", 0>>]

NewCaller == [pc |-> "start", off |-> 0, fd |-> <<"none", 0>>, ret |-> <<>>, err |-> <<>>]

InitCache ==
    /\ cachedPath = <<>>
    /\ finalFile = NoFile
    /\ scratch = [c \in Callers |-> NoFile]
    /\ caller = [c \in Callers |-> NewCaller]

\* return binaryPath, nil
CacheReturn(c, path) ==
    caller' = [caller EXCEPT ![c].pc = "done", ![c].ret = path]

\* lines 21-53: the cachedPath shortcut, then the platform checks, the embedded
\* data, the cache directory (linux/amd64, all of them succeed). cachedPath is a
\* package variable written without synchronisation: a call in another process,
\* or one racing with the write, reads it as still empty
CacheStart(c) ==
    /\ caller[c].pc = "start"
    /\ \E seen \in {cachedPath, <<>>} :
          IF seen # <<>> /\ finalFile.exists
          THEN CacheReturn(c, seen)
          ELSE caller' = [caller EXCEPT ![c].pc = "stat"]
    /\ UNCHANGED <<cachedPath, finalFile, scratch>>
    /\ UNCHANGED <<cmdVars, runs>>

\* lines 55-60: reuse the binary at the final path when it has an execute bit
CacheStat(c) ==
    /\ caller[c].pc = "stat"
    /\ IF finalFile.exists /\ finalFile.exec
       THEN cachedPath' = QScannerPath /\ CacheReturn(c, QScannerPath)
       ELSE caller' = [caller EXCEPT ![c].pc = "create"] /\ UNCHANGED cachedPath
    /\ UNCHANGED <<finalFile, scratch>>
    /\ UNCHANGED <<cmdVars, runs>>

\* lines 62-79: os.CreateTemp, the gzip reader
CacheCreateTemp(c) ==
    /\ caller[c].pc = "create"
    /\ scratch' = [scratch EXCEPT ![c] = [exists |-> TRUE, exec |-> FALSE, data |-> {},
                                          id |-> <<"scratch", c>>]]
    /\ caller' = [caller EXCEPT ![c].pc = "copy", ![c].off = 0]
    /\ UNCHANGED <<cachedPath, finalFile>>
    /\ UNCHANGED <<cmdVars, runs>>

\* line 81: io.Copy(tmpFile, gzReader), one block per step
CacheCopy(c) ==
    /\ caller[c].pc = "copy"
    /\ scratch' = [scratch EXCEPT ![c].data = @ \cup {caller[c].off + 1}]
    /\ caller' = [caller EXCEPT ![c].off = @ + 1,
                                ![c].pc = IF caller[c].off + 1 = NChunks THEN "chmod" ELSE "copy"]
    /\ UNCHANGED <<cachedPath, finalFile>>
    /\ UNCHANGED <<cmdVars, runs>>

ChmodSkipped(f) == f

\* os.Chmod(path, 0755)
ChmodExec(f) == [f EXCEPT !.exec = TRUE]

\* lines 87-92: close the scratch file and make it executable
CacheChmod(c) ==
    /\ caller[c].pc = "chmod"
    /\ scratch' = [scratch EXCEPT ![c] = ChmodExec(@)]
    /\ caller' = [caller EXCEPT ![c].pc = "rename"]
    /\ UNCHANGED <<cachedPath, finalFile>>
    /\ UNCHANGED <<cmdVars, runs>>

\* lines 94-103: os.Rename(tmpPath, binaryPath) puts the scratch file at the final
\* path in one step; when it fails the caller falls back to copyFile
CacheRename(c) ==
    /\ caller[c].pc = "rename"
    /\ \E renameOK \in BOOLEAN :
          IF renameOK
          THEN /\ finalFile' = scratch[c]
               /\ scratch' = [scratch EXCEPT ![c] = NoFile]
               /\ cachedPath' = QScannerPath
               /\ CacheReturn(c, QScannerPath)
          ELSE /\ caller' = [caller EXCEPT ![c].pc = "fcreate"]
               /\ UNCHANGED <<cachedPath, finalFile, scratch>>
    /\ UNCHANGED <<cmdVars, runs>>

\* copyFile lines 121-131: os.Open(src), os.Create(dst) creates the final file
\* without an execute bit, or empties the one that is there and keeps its mode
CopyCreate(c) ==
    /\ caller[c].pc = "fcreate"
    /\ finalFile' = IF finalFile.exists
                    THEN [finalFile EXCEPT !.data = {}]
                    ELSE [exists |-> TRUE, exec |-> FALSE, data |-> {},
                          id |-> <<"created", c>>]
    /\ caller' = [caller EXCEPT ![c].pc = "fcopy", ![c].off = 0, ![c].fd = finalFile'.id]
    /\ UNCHANGED <<cachedPath, scratch>>
    /\ UNCHANGED <<cmdVars, runs>>

\* copyFile line 133: io.Copy(dstFile, srcFile), one block per step, written at the
\* descriptor's own offset into the inode the descriptor was opened on
CopyWrite(c) ==
    /\ caller[c].pc = "fcopy"
    /\ finalFile' = IF finalFile.id = caller[c].fd
                    THEN [finalFile EXCEPT !.data = @ \cup {caller[c].off + 1}]
                    ELSE finalFile
    /\ caller' = [caller EXCEPT ![c].off = @ + 1,
                                ![c].pc = IF caller[c].off + 1 = NChunks THEN "fchmod" ELSE "fcopy"]
    /\ UNCHANGED <<cachedPath, scratch>>
    /\ UNCHANGED <<cmdVars, runs>>

\* copyFile lines 137-142: os.Chmod(dst, srcInfo.Mode())
CopyChmod(c) ==
    /\ caller[c].pc = "fchmod"
    /\ finalFile' = [finalFile EXCEPT !.exec = scratch[c].exec]
    /\ caller' = [caller EXCEPT ![c].pc = "fremove"]
    /\ UNCHANGED <<cachedPath, scratch>>
    /\ UNCHANGED <<cmdVars, runs>>

\* lines 98-103 after copyFile: os.Remove(tmpPath), cachedPath = binaryPath
CopyDone(c) ==
    /\ caller[c].pc = "fremove"
    /\ scratch' = [scratch EXCEPT ![c] = NoFile]
    /\ cachedPath' = QScannerPath
    /\ CacheReturn(c, QScannerPath)
    /\ UNCHANGED finalFile
    /\ UNCHANGED <<cmdVars, runs>>

IdleCmd ==
    /\ cmdKind = "none" /\ args = <<>> /\ jsonOutput = FALSE /\ cfg = <<>>
    /\ pc = "none" /\ idx = 0 /\ results = <<>> /\ exitStatus = 0 /\ ctxDone = FALSE
    /\ tmpDirs = {} /\ tmpMade = 0 /\ fs = NoDirs /\ fs0 = NoDirs
    /\ runtimeFound = TRUE /\ listFlag = FALSE /\ osRelease = <<>> /\ rootProbe = "ok"
    /\ cur = NoCall /\ proc = NoProc /\ hist = <<>>

NextCache ==
    \E c \in Callers :
        \/ CacheStart(c)
        \/ CacheStat(c)
        \/ CacheCreateTemp(c)
        \/ CacheCopy(c)
        \/ CacheChmod(c)
        \/ CacheRename(c)
        \/ CopyCreate(c)
        \/ CopyWrite(c)
        \/ CopyChmod(c)
        \/ CopyDone(c)

InitCacheAll == InitCache /\ IdleCmd /\ IdleRuns

SpecCache == InitCacheAll /\ [][NextCache]_vars

-----------------------------------------------------------------------------
(* Two runs of one subcommand whose configurations differ in the token only *)

Tokens == {<<>>, <<"tokA">>, <<"tokB">>}

TokenPieces == {"tokA", "tokB"}

ArgConfigs ==
    [Token : Tokens, Pod : {<<>>, <<"US1">>}, Mode : {<<>>, <<"inventory-only">>},
     Format : {<<>>, <<"json">>}, ScanTypes : {<<>>, <<"pkg">>},
     OutputDir : {<<>>, <<"/", "o">>}]

Subcommands == {"sif", "running", "image", "repo"}

NotLaunched == [launched |-> FALSE, argv |-> <<>>, env |-> <<>>]

InitArgs ==
    /\ runs \in [cfg : ArgConfigs, token2 : Tokens, kind : Subcommands,
                 a : {NotLaunched}, b : {NotLaunched}]
    /\ runs.token2 # runs.cfg.Token

\* the argv the subcommand `kind` gives the engine under configuration c: ScanSIF for
\* SifA with temporary directory 1, ScanRunning for process 42, RunDirect for a
\* registry image or a repository path
EngineArgv(kind, c) ==
    LET opts == MakeOpts(c)
    IN  CASE kind = "sif" ->
                SifArgv(opts, SifOSInfo(Abs(SifA)), SifOutputDir(opts, SifA), TempDirPath(1))
          [] kind = "running" ->
                RunningArgv(opts, getOSInfo(<<>>), RunningOutputDir(opts, 42), ProcRoot(42))
          [] kind = "image" -> DirectArgv(opts, <<"image">>, << <<"nginx:latest">> >>)
          [] kind = "repo" -> DirectArgv(opts, <<"repo">>, << <<"/", "s", "r", "c">> >>)

\* the subcommand runs under configuration c once Validate has accepted it
Launched(kind, c) ==
    [launched |-> TRUE, argv |-> EngineArgv(kind, c), env |-> EngineEnv(MakeOpts(c))]

LaunchFirst ==
    /\ ~runs.a.launched
    /\ Validate(runs.cfg) = <<>>
    /\ runs' = [runs EXCEPT !.a = Launched(runs.kind, runs.cfg)]
    /\ UNCHANGED <<cmdVars, cacheVars>>

LaunchSecond ==
    /\ ~runs.b.launched
    /\ Validate([runs.cfg EXCEPT !.Token = runs.token2]) = <<>>
    /\ runs' = [runs EXCEPT !.b = Launched(runs.kind, [runs.cfg EXCEPT !.Token = runs.token2])]
    /\ UNCHANGED <<cmdVars, cacheVars>>

InitArgsAll == InitArgs /\ IdleCmd /\ IdleCache

NextArgs == LaunchFirst \/ LaunchSecond

SpecArgs == InitArgsAll /\ [][NextArgs]_vars

-----------------------------------------------------------------------------
(* Single calls of the functions the commands are built from: `runs` holds the
   function, its input and, once the call is done, its output *)

Call(fn, inputs) == {[fn |-> fn, in |-> i, out |-> <<>>, done |-> FALSE] : i \in inputs}

Return(out) == runs' = [runs EXCEPT !.out = out, !.done = TRUE]

Calling(fn) == runs.fn = fn /\ ~runs.done

\* ScanOptions as any caller of the scanner package may fill them
AnyOpts ==
    [Token : {<<"tokA">>}, Pod : {<<>>, <<"US1">>}, ScanTypes : {<<>>, <<"pkg">>},
     Mode : {<<>>, <<"inventory-only">>}, Format : {<<>>, <<"json">>},
     OutputDir : {<<>>, <<"/", "o">>}, QScannerPath : {QScannerPath}]

\* stdout of `uname -a` in an image: a line of text, or nothing but a newline
UnameOutputs == {UnameText, <<"\n">>}

\* the scans whose argv is built: an image with the outcome of `uname -a` in it, or
\* process 42 with its os-release
ArgvInputs ==
    [kind : {"sif"}, opts : AnyOpts, uname : UnameOutputs, execOK : BOOLEAN,
     osRelease : {<<>>}]
    \cup [kind : {"running"}, opts : AnyOpts, uname : {<<>>}, execOK : {TRUE},
          osRelease : OsReleaseFiles]

\* the OS description, output directory and root ScanSIF (for SifA, temporary
\* directory 1) and ScanRunning (for process 42) work with
ScanOSInfo(i) ==
    IF i.kind = "sif" THEN UnameOSInfo(i.uname, i.execOK) ELSE getOSInfo(i.osRelease)

ScanOutputDir(i) ==
    IF i.kind = "sif" THEN SifOutputDir(i.opts, SifA) ELSE RunningOutputDir(i.opts, 42)

ScanRoot(i) == IF i.kind = "sif" THEN TempDirPath(1) ELSE ProcRoot(42)

\* the argv ScanSIF and ScanRunning hand to exec.CommandContext
ScanArgv(i) ==
    IF i.kind = "sif"
    THEN SifArgv(i.opts, ScanOSInfo(i), ScanOutputDir(i), ScanRoot(i))
    ELSE RunningArgv(i.opts, ScanOSInfo(i), ScanOutputDir(i), ScanRoot(i))

\* the length of the padding in the long command line
PadLen == 190

\* `apptainer run --bind <PadLen dashes> app.sif`, longer than the 200 bytes kept
LongCmdline ==
    <<"a", "p", "p", "t", "a", "i", "n", "e", "r", " ", "r", "u", "n", " ">>
    \o [i \in 1..PadLen |-> "-"]
    \o <<" ", "a", "p", "p", ".", "s", "i", "f">>

\* process tables discovery may find: the short command lines of ProcessTable, and
\* one with a long command line
ProcessTables ==
    { ProcessTable,
      << [Pid |-> 51, Cmdline |-> LongCmdline],
         [Pid |-> 52, Cmdline |-> <<"a", "p", "p", "t", "a", "i", "n", "e", "r", " ",
                                    "e", "x", "e", "c", " ", "A", "p", "p", ".", "s", "i", "f">>],
         [Pid |-> 53, Cmdline |-> <<"s", "s", "h", "d">>] >> }

NamePatterns ==
    { <<"a", "p", "p", ".", "s", "i", "f">>, <<"X", ".", "S">>, <<"r", "u", "n">>,
      <<"z">>, <<".", ".", ".">> }

NameInputs == [procs : ProcessTables, pattern : NamePatterns]

\* FindContainersByName over one process table
FindByName ==
    /\ Calling("byname")
    /\ Return(FindContainersByName(findContainers(runs.in.procs), runs.in.pattern))
    /\ UNCHANGED <<cmdVars, cacheVars>>

\* findContainers over one process table
FindAll ==
    /\ Calling("discover")
    /\ Return(findContainers(runs.in.procs))
    /\ UNCHANGED <<cmdVars, cacheVars>>

\* command lines of processes: runtime commands with and without a subcommand,
\* launcher processes with an image in lower and in upper case, others
Cmdlines ==
    { <<"b", "a", "s", "h">>,
      <<"a", "p", "p", "t", "a", "i", "n", "e", "r", " ", "r", "u", "n", " ", "x", ".", "s", "i", "f">>,
      <<"S", "i", "n", "g", "u", "l", "a", "r", "i", "t", "y", " ", "E", "X", "E", "C", " ", "x", ".", "s", "i", "f">>,
      <<"a", "p", "p", "t", "a", "i", "n", "e", "r", " ", "i", "n", "s", "t", "a", "n", "c", "e", " ", "l", "i", "s", "t">>,
      <<"a", "p", "p", "t", "a", "i", "n", "e", "r", " ", "v", "e", "r", "s", "i", "o", "n">>,
      <<"a", "p", "p", "t", "a", "i", "n", "e", "r", " ", "r", "u", "n", "n", "e", "r", " ", "x">>,
      <<"s", "t", "a", "r", "t", "e", "r", "-", "s", "u", "i", "d", " ", "x", ".", "s", "i", "f">>,
      <<"s", "t", "a", "r", "t", "e", "r", " ", "/", "i", "/", "A", "P", "P", ".", "S", "I", "F">>,
      <<"S", "T", "A", "R", "T", "E", "R", " ", "a", "p", "p", "t", "a", "i", "n", "e", "r">>,
      <<"s", "t", "a", "r", "t", "e", "r", " ", "-", "v">>,
      <<"t", "a", "r", " ", "-", "x", "f", " ", "x", ".", "s", "i", "f">> }

\* isApptainerProcess on one command line
CheckProcess ==
    /\ Calling("isapptainer")
    /\ Return(isApptainerProcess(runs.in))
    /\ UNCHANGED <<cmdVars, cacheVars>>

\* file names an output directory may hold
ReportNames ==
    { <<"r", ".", "j", "s", "o", "n">>,
      <<"a", ".", "s", "p", "d", "x">>,
      <<"b", "-", "s", "p", "d", "x", ".", "j", "s", "o", "n">>,
      <<"c", ".", "c", "d", "x", ".", "j", "s", "o", "n">>,
      <<"s", ".", "s", "a", "r", "i", "f">>,
      <<"z", "-", "s", "a", "r", "i", "f", ".", "j", "s", "o", "n">>,
      <<"n", ".", "t", "x", "t">> }

\* the output directory of the calls of findReports
ReportDir == <<"/", "o", "/", "x">>

\* its content: any set of those names, or no (readable) directory at all
ReportDirs == {NoDirs} \cup {[d \in {ReportDir} |-> names] : names \in SUBSET ReportNames}

\* findReports over one output directory
CollectReports ==
    /\ Calling("reports")
    /\ Return(findReports(runs.in.files, ReportDir))
    /\ UNCHANGED <<cmdVars, cacheVars>>

\* the values --mode may be given; the empty one stands for no mode set
Modes ==
    { <<>>, <<"get-report">>, <<"scan-only">>, <<"inventory-only">>,
      <<"evaluate-policy">>, <<"Inventory-Only">> }

\* configurations as flags, environment and config file may leave them
AnyConfigs ==
    [Token : {<<>>, <<"tokA">>}, Pod : {<<>>, <<"US1">>}, Mode : Modes,
     Format : {<<>>}, ScanTypes : {<<>>}, OutputDir : {<<>>}]

\* Config.Validate on one configuration
ValidateConfig ==
    /\ Calling("validate")
    /\ Return(Validate(runs.in))
    /\ UNCHANGED <<cmdVars, cacheVars>>

\* a JSON document: an object with its members in order, an array with its items
\* in order, or null
JSONValue(kind, members, items) == [kind |-> kind, members |-> members, items |-> items]

\* json.MarshalIndent of one JSONOutput: error, os_info and reports are omitempty
JSONObject(r) ==
    JSONValue("object",
              << <<"target", r.Target>>, <<"type", r.Type>>,
                 <<"duration_seconds", r.DurationSeconds>>, <<"exit_code", r.ExitCode>> >>
              \o (IF r.Error # <<>> THEN << <<"error", r.Error>> >> ELSE <<>>)
              \o (IF r.OSInfo # <<>> THEN << <<"os_info", r.OSInfo>> >> ELSE <<>>)
              \o (IF DOMAIN r.Reports # {} THEN << <<"reports", r.Reports>> >> ELSE <<>>),
              <<>>)

\* as PrintJSON, printing an array whatever the number of results
PrintJSONArray(rs) ==
    JSONValue("array", <<>>, [i \in 1..Len(rs) |-> JSONObject(rs[i])])

\* PrintJSON: the document it prints (a nil slice is marshalled as null)
PrintJSON(rs) ==
    LET outputs == [i \in 1..Len(rs) |-> JSONObject(rs[i])]
    IN  IF Len(outputs) = 1 THEN outputs[1]
        ELSE IF Len(outputs) = 0 THEN JSONValue("null", <<>>, <<>>)
        ELSE JSONValue("array", <<>>, outputs)

\* the most results printed in one call
MaxPrinted == 3

\* a result with the time its scan took
Timed(r, seconds) == [f \in DOMAIN r \cup {"DurationSeconds"} |->
                        IF f = "DurationSeconds" THEN seconds ELSE r[f]]

\* results as the commands hand them to PrintJSON: a success with reports, an engine
\* failure, a synthesized error result
PrintedResults ==
    { Timed([NewResult(SifA, "sif") EXCEPT
                 !.OSInfo = <<"Linux host 5.15 x86_64">>,
                 !.Reports = findReports([d \in {StaleDir} |-> {ReportFile}], StaleDir)], 45),
      Timed([NewResult(SifRel, "sif") EXCEPT !.ExitCode = 3,
                                             !.OSInfo = <<"Linux unknown">>], 7),
      Timed(ErrorResult(SifMissing, "sif", <<"SIF file not found: ">> \o SifMissing), 0) }

PrintInputs == UNION {[1..n -> PrintedResults] : n \in 0..MaxPrinted}

\* PrintJSON on one list of results
PrintResults ==
    /\ Calling("json")
    /\ Return(PrintJSON(runs.in))
    /\ UNCHANGED <<cmdVars, cacheVars>>

BuildArgv ==
    /\ Calling("argv")
    /\ Return(ScanArgv(runs.in))
    /\ UNCHANGED <<cmdVars, cacheVars>>

FnCalls ==
    Call("argv", ArgvInputs)
    \cup Call("byname", NameInputs)
    \cup Call("discover", [procs : ProcessTables])
    \cup Call("reports", [files : ReportDirs])
    \cup Call("validate", AnyConfigs)
    \cup Call("json", PrintInputs)
    \cup Call("isapptainer", Cmdlines)

InitFn == runs \in FnCalls /\ IdleCmd /\ IdleCache

NextFn ==
    \/ BuildArgv
    \/ FindByName
    \/ FindAll
    \/ CollectReports
    \/ ValidateConfig
    \/ PrintResults
    \/ CheckProcess

SpecFn == InitFn /\ [][NextFn]_vars

-----------------------------------------------------------------------------
(* ExtractFilesystem: `<runtime> exec <image> tar -cf - /` piped into
   `tar -xf - -C <destDir>`; `runs` holds the state of one call *)

\* the most entries an image's root has, and how many of them the pipe can hold
NEntries == 3
PipeCap == 2

StageExitCodes == {0, 1}

\* a call on an image whose root has `total` entries, destDir being empty
InitExtract ==
    \E n \in 0..NEntries :
        runs = [pc |-> "start", total |-> n, tar |-> "none", untar |-> "none",
                tarCode |-> 0, untarCode |-> 0, sent |-> 0, pipe |-> 0, got |-> 0,
                readOK |-> TRUE, err |-> <<>>]

\* as ExtractVerdict, failing also when a stage exited non-zero
ExtractVerdictStrict(readOK, got, tarCode, untarCode) ==
    IF tarCode # 0 \/ untarCode # 0 THEN <<"extraction failed">>
    ELSE IF ~readOK THEN <<"failed to read extracted directory">>
    ELSE IF got = 0 THEN <<"no files extracted from image">>
    ELSE <<>>

\* lines 189-201: the error returned once both stages have been waited for
ExtractVerdict(readOK, got, tarCode, untarCode) ==
    IF ~readOK THEN <<"failed to read extracted directory">>
    ELSE IF got = 0 THEN <<"no files extracted from image">>
    ELSE <<>>

\* as ProcessKill, no signal being sent
ProcessKillSkipped(state) == state

\* extractCmd.Process.Kill(): SIGKILL to a started child, which cannot ignore it
ProcessKill(state) == IF state = "running" THEN "killed" ELSE state

\* lines 158-187: the two commands are started, the unpack stage first
ExtractStart ==
    /\ runs.pc = "start"
    /\ \E pipeOK \in BOOLEAN, untarStartOK \in BOOLEAN, tarStartOK \in BOOLEAN :
          IF ~pipeOK
          THEN runs' = [runs EXCEPT !.pc = "done", !.err = <<"failed to create pipe">>]
          ELSE IF ~untarStartOK
          THEN runs' = [runs EXCEPT !.pc = "done", !.err = <<"failed to start extraction">>]
          ELSE IF ~tarStartOK
          THEN runs' = [runs EXCEPT !.pc = "done", !.untar = ProcessKill("running"),
                                    !.err = <<"failed to start tar">>]
          ELSE runs' = [runs EXCEPT !.pc = "wait", !.tar = "running", !.untar = "running"]
    /\ UNCHANGED <<cmdVars, cacheVars>>

\* the serialize stage writes one more entry into the pipe
TarWrite ==
    /\ runs.pc = "wait" /\ runs.tar = "running"
    /\ runs.sent < runs.total /\ runs.pipe < PipeCap
    /\ runs' = [runs EXCEPT !.sent = @ + 1, !.pipe = @ + 1]
    /\ UNCHANGED <<cmdVars, cacheVars>>

\* the serialize stage exits: with 0 after the last entry, with 1 at any time
TarExit ==
    /\ runs.pc = "wait" /\ runs.tar = "running"
    /\ \E code \in StageExitCodes :
          /\ code = 0 => runs.sent = runs.total
          /\ runs' = [runs EXCEPT !.tar = "exited", !.tarCode = code]
    /\ UNCHANGED <<cmdVars, cacheVars>>

\* the unpack stage takes one entry from the pipe and writes it under destDir
UntarRead ==
    /\ runs.pc = "wait" /\ runs.untar = "running"
    /\ runs.pipe > 0
    /\ runs' = [runs EXCEPT !.pipe = @ - 1, !.got = @ + 1]
    /\ UNCHANGED <<cmdVars, cacheVars>>

\* the unpack stage exits: with 0 or 1 at the end of its input, with 1 at any time
UntarExit ==
    /\ runs.pc = "wait" /\ runs.untar = "running"
    /\ \E code \in StageExitCodes :
          /\ code = 0 => (runs.tar = "exited" /\ runs.pipe = 0)
          /\ runs' = [runs EXCEPT !.untar = "exited", !.untarCode = code]
    /\ UNCHANGED <<cmdVars, cacheVars>>

\* lines 186-201: tarCmd.Wait(), extractCmd.Wait(), os.ReadDir(destDir)
ExtractFinish ==
    /\ runs.pc = "wait" /\ runs.tar = "exited" /\ runs.untar = "exited"
    /\ \E readOK \in BOOLEAN :
          runs' = [runs EXCEPT !.pc = "done", !.readOK = readOK,
                               !.err = ExtractVerdict(readOK, runs.got, runs.tarCode,
                                                      runs.untarCode)]
    /\ UNCHANGED <<cmdVars, cacheVars>>

InitExtractAll == InitExtract /\ IdleCmd /\ IdleCache

NextExtract ==
    \/ ExtractStart
    \/ TarWrite
    \/ TarExit
    \/ UntarRead
    \/ UntarExit
    \/ ExtractFinish

SpecExtract == InitExtractAll /\ [][NextExtract]_vars

\* the serialize stage has written everything and exits. (The calling process
\* holds the read end of the pipe from StdoutPipe until tarCmd.Wait() has returned,
\* so a write into the full pipe blocks, also after the unpack stage has exited:
\* TarWrite needs room in the pipe at all times.)
TarExitAtEnd == TarExit /\ runs.sent = runs.total

\* the unpack stage has read to the end of its input and exits
UntarExitAtEOF == UntarExit /\ runs.tar = "exited" /\ runs.pipe = 0

\* what the processes and the caller do whenever they can: start, write while the
\* pipe has room, read while it has data, exit at the end of the stream, return
\* from the two Waits. A stage failing before its end is possible, never certain
ExtractProgress ==
    \/ ExtractStart
    \/ TarWrite
    \/ TarExitAtEnd
    \/ UntarRead
    \/ UntarExitAtEOF
    \/ ExtractFinish

ExtractFairness == WF_vars(ExtractProgress)

SpecExtractLive == InitExtractAll /\ [][NextExtract]_vars /\ ExtractFairness

-----------------------------------------------------------------------------
(* Properties *)

\* a sif scan call is in flight
InCall == pc \in {"extract", "running"}

\* the scan call of target i ended by returning the result of the engine run
EngineRan(i) == hist[i].reached = "engine"

\* C1: whenever no ScanSIF call is in flight, every qscan-rootfs-* directory a call
\* created is gone again, whichever way the call returned (extraction failure,
\* output-directory failure, launch failure, engine exit, cancellation)
C1_TempDirGoneAfterReturn ==
    (cmdKind = "sif" /\ ~InCall) => tmpDirs = {}

\* two calls created a directory each; one was cancelled while the engine ran, the
\* other failed to extract; both have returned
C1_Witness ==
    /\ cmdKind = "sif" /\ pc = "exited" /\ tmpMade = 2 /\ tmpDirs = {}
    /\ \E i \in 1..Len(hist) : hist[i].how = "signal"
    /\ \E i \in 1..Len(hist) : hist[i].reached = "extract"

\* C2: every result that is rendered or used for the exit status has a non-zero
\* ExitCode whenever its Error is non-empty
C2_ErrorImpliesExitCode ==
    \A i \in 1..Len(results) : results[i].Error # <<>> => results[i].ExitCode # 0

\* one rendered result carries an error (the engine could not be launched), another
\* has an empty Error with a non-zero ExitCode (the engine exited with 3)
C2_Witness ==
    /\ cmdKind = "sif" /\ pc = "exited"
    /\ \E i \in 1..Len(results) :
          /\ EngineRan(i) /\ hist[i].how = "nostart"
          /\ results[i].Error # <<>> /\ results[i].ExitCode # 0
    /\ \E i \in 1..Len(results) : results[i].Error = <<>> /\ results[i].ExitCode = 3

\* C3: a scanning invocation exits with the first non-zero ExitCode of its results,
\* in table mode and in JSON mode alike
C3_ExitStatusIsFirstNonZero ==
    (pc = "exited" /\ results # <<>>) => exitStatus = ExitStatusOf(FirstNonZero(results))

\* C4: a sif batch attempts every path in input order: result i is the result of
\* path i, and when the command ends after its loop there is a result for every path
C4_EveryPathAttemptedInOrder ==
    cmdKind = "sif" =>
        /\ Len(results) = idx - 1
        /\ Len(hist) = Len(results)
        /\ Len(results) <= Len(args)
        /\ \A i \in 1..Len(results) : results[i].Target = args[i]
        /\ (pc = "exited" /\ hist # <<>>) => Len(results) = Len(args)

\* the first path of a batch of two does not exist, the second was scanned
C4_Witness ==
    /\ cmdKind = "sif" /\ pc = "exited" /\ Len(results) = 2
    /\ hist[1].reached = "stat" /\ results[1].ExitCode # 0
    /\ EngineRan(2) /\ hist[2].how = "exit"

\* the result of scanning `target` alone with the same options, from the output
\* directories as they were when the command started, the environment behaving as `beh`
SoloSif(target, beh) ==
    LET opts == MakeOpts(cfg)
        outputDir == SifOutputDir(opts, target)
        r == [NewResult(target, "sif") EXCEPT !.OSInfo = SifOSInfo(Abs(target))]
        files == WriteFiles(MkdirAll(fs0, outputDir), outputDir, beh.files)
    IN  IF beh.err # <<>>
        THEN ErrorResult(target, "sif", beh.err)
        ELSE Finished(files, r, beh, outputDir)

\* C5: in a batch of distinct paths one of which does not exist, every result
\* equals the result of scanning its path alone, also when paths share a base name
C5_BatchResultsEqualSolo ==
    (/\ cmdKind = "sif"
     /\ \E k \in 1..Len(args) : Abs(args[k]) \notin ExistingFiles
     /\ \A i, j \in 1..Len(args) : i # j => args[i] # args[j]) =>
        \A i \in 1..Len(results) : results[i] = SoloSif(args[i], hist[i])

\* the classification of the result r of a call that went as beh
Classified(r, beh) ==
    beh.reached = "engine" =>
        /\ beh.err = <<>>
        /\ (beh.how = "exit" /\ beh.code = 0) => (r.ExitCode = 0 /\ r.Error = <<>>)
        /\ (beh.how = "exit" /\ beh.code # 0) => (r.ExitCode = beh.code /\ r.Error = <<>>)
        /\ beh.how = "nostart" => (r.ExitCode = 1 /\ r.Error # <<>>)

\* C6: once the engine subprocess was attempted, the call returns a nil error and a
\* result classified by how the subprocess ended: exit 0 gives ExitCode 0 and no Error,
\* another exit code gives that ExitCode and no Error, a failed launch gives
\* ExitCode 1 and an Error
C6_EngineOutcomeClassified ==
    /\ cmdKind = "sif" =>
          \A i \in 1..Len(results) :
              /\ Classified(results[i], hist[i])
              /\ EngineRan(i) => results[i].Type = "sif" /\ results[i].OSInfo # <<>>
    /\ (cmdKind = "running" /\ pc = "render") =>
          Classified(cur.result, [cur.beh EXCEPT !.err = cur.err])

\* a batch in which one engine exited with 3 and another could not be launched
C6_Witness ==
    /\ cmdKind = "sif" /\ Len(results) = 2
    /\ \E i \in 1..2 : EngineRan(i) /\ hist[i].how = "exit" /\ hist[i].code = 3
    /\ \E i \in 1..2 : EngineRan(i) /\ hist[i].how = "nostart"

\* C7: an engine that exits with 3 and writes nothing gives ExitCode 3, an empty
\* Error and an empty report mapping, whatever the output directory held before
C7_Exit3NoReports ==
    cmdKind = "sif" =>
        \A i \in 1..Len(results) :
            (EngineRan(i) /\ hist[i].how = "exit" /\ hist[i].code = 3 /\ hist[i].files = {})
            => /\ results[i].ExitCode = 3
               /\ results[i].Error = <<>>
               /\ results[i].Reports = EmptyMap

\* C8: when the context is cancelled while the engine runs, the engine is ended and
\* the scan call returns
C8_CancelEndsTheCall ==
    (pc = "running" /\ proc.state = "running" /\ ctxDone)
        ~> (proc.state = "none" /\ pc \in {"loop", "render"})

\* a call has returned after its engine was killed
C8_Witness ==
    /\ pc \in {"loop", "render"}
    /\ \/ (cmdKind = "sif" /\ hist # <<>> /\ hist[Len(hist)].how = "signal")
       \/ (cmdKind = "running" /\ cur.beh.how = "signal")

\* every caller of ExtractQScanner has returned
AllReturned == \A c \in Callers : caller[c].pc = "done"

\* C9: when concurrent calls of ExtractQScanner that found no cached binary have all
\* returned, each returned the final cache path and no error, the file at that path
\* is the whole binary with an execute bit, and no scratch file is left beside it
C9_CacheConverges ==
    AllReturned =>
        /\ \A c \in Callers : caller[c].ret = QScannerPath /\ caller[c].err = <<>>
        /\ finalFile.exists /\ finalFile.exec /\ finalFile.data = AllChunks
        /\ \A c \in Callers : ~scratch[c].exists

\* both callers extracted their own scratch file; one renamed it into place, the
\* other fell back to copyFile
C9_Witness ==
    /\ AllReturned
    /\ caller[1].fd # <<"none", 0>>
    /\ finalFile.id = <<"scratch", 2>>

\* no piece of any argument is a token
TokenFree(argv) ==
    \A i \in 1..Len(argv) : \A j \in 1..Len(argv[i]) : argv[i][j] \notin TokenPieces

\* the environment is the wrapper's own, followed by QUALYS_ACCESS_TOKEN=<token>
TokenInEnvOnly(env, token) ==
    /\ Len(env) = Len(OsEnviron) + 1
    /\ SubSeq(env, 1, Len(OsEnviron)) = OsEnviron
    /\ env[Len(env)] = <<"QUALYS_ACCESS_TOKEN=">> \o token

\* C10: two runs that differ in the token only give the engine the same argv, no
\* argument holds a token, and the token is in the QUALYS_ACCESS_TOKEN entry of the
\* environment
C10_ArgvIndependentOfToken ==
    /\ runs.a.launched => (TokenFree(runs.a.argv) /\ TokenInEnvOnly(runs.a.env, runs.cfg.Token))
    /\ runs.b.launched => (TokenFree(runs.b.argv) /\ TokenInEnvOnly(runs.b.env, runs.token2))
    /\ (runs.a.launched /\ runs.b.launched) => runs.a.argv = runs.b.argv

\* both runs of `qscan sif` were launched, with two different non-empty tokens
C10_Witness ==
    /\ runs.a.launched /\ runs.b.launched
    /\ runs.kind = "sif"
    /\ runs.cfg.Token = <<"tokA">> /\ runs.token2 = <<"tokB">>
    /\ runs.a.env # runs.b.env

FlagOrder ==
    <<"--pod", "--scan-types", "--mode", "--format", "--shell-commands", "--output-dir",
      "--exclude-dirs">>

\* the value flag f is to carry for scan i, <<>> when the flag is to be absent
FlagValue(f, i) ==
    CASE f = "--pod" -> i.opts.Pod
      [] f = "--scan-types" -> i.opts.ScanTypes
      [] f = "--mode" -> i.opts.Mode
      [] f = "--format" -> i.opts.Format
      [] f = "--shell-commands" ->
            IF ScanOSInfo(i) = <<>> THEN <<>> ELSE <<"uname -a=">> \o ScanOSInfo(i)
      [] f = "--output-dir" -> ScanOutputDir(i)
      [] f = "--exclude-dirs" ->
            IF i.kind = "running" THEN <<"/proc,/sys,/dev,/run">> ELSE <<>>

\* C11: the engine argv is the flags --pod, --scan-types, --mode, --format,
\* --shell-commands, --output-dir in this order, each present exactly when its value
\* is non-empty, then --exclude-dirs exactly for a live process, then `rootfs <root>`
C11_ArgvShape ==
    (runs.fn = "argv" /\ runs.done) =>
        LET argv == runs.out
            n == Len(argv)
            present == SelectSeq(FlagOrder, LAMBDA f : FlagValue(f, runs.in) # <<>>)
        IN  /\ n = 2 * Len(present) + 2
            /\ argv[n - 1] = <<"rootfs">>
            /\ argv[n] = ScanRoot(runs.in)
            /\ \A k \in 1..Len(present) :
                  /\ argv[2 * k - 1] = <<present[k]>>
                  /\ argv[2 * k] = FlagValue(present[k], runs.in)

\* the argv of a live-process scan with no pod and no format, but a mode and scan types
C11_Witness ==
    /\ runs.fn = "argv" /\ runs.done
    /\ runs.in.kind = "running"
    /\ runs.in.opts.Pod = <<>> /\ runs.in.opts.Format = <<>>
    /\ runs.in.opts.Mode # <<>> /\ runs.in.opts.ScanTypes # <<>>
    /\ Len(runs.out) = 12

\* the run cannot scan: the configuration is invalid, or `qscan sif` finds no runtime
CannotScan ==
    \/ cmdKind \in {"sif", "running"} /\ ~listFlag /\ Validate(cfg) # <<>>
    \/ cmdKind = "sif" /\ ~runtimeFound

\* no scan call was made: no temporary directory, no extraction, no probe of a
\* process root, no output directory, no engine subprocess
Untouched ==
    /\ pc \in {"start", "exited"}
    /\ tmpMade = 0 /\ tmpDirs = {}
    /\ cur = NoCall /\ proc = NoProc /\ hist = <<>>
    /\ fs = fs0

\* C12: with an invalid configuration, or in `qscan sif` without a container runtime,
\* no target is touched and the run ends with an error and no results
C12_NothingTouchedBeforeValidation ==
    CannotScan => (Untouched /\ results = <<>> /\ (pc = "exited" => exitStatus = 1))

\* `qscan sif` over two paths has ended for want of a runtime, the configuration
\* being valid
C12_Witness ==
    /\ cmdKind = "sif" /\ pc = "exited"
    /\ Validate(cfg) = <<>> /\ ~runtimeFound
    /\ Len(args) = 2

\* ScanRunning was called with a name pattern and process discovery did not fail
ResolvedByName ==
    /\ cmdKind = "running" /\ pc \in {"running", "render"}
    /\ ~Atoi(args[1]).ok
    /\ cur.err # <<"failed to list processes">>

\* the discovered containers whose command line holds the target, in discovery order
Matches == FindContainersByName(Discovered, args[1])

\* some line of the note is about process pid
NoteNames(note, pid) ==
    \E k \in 1..Len(note) : \E j \in 1..Len(note[k]) : note[k][j] = ToString(pid)

\* C13: a name pattern with no match fails and nothing is scanned; with matches
\* the first one in discovery order is taken; with more than one match a note names
\* the PID of every match and the resolution still succeeds
C13_NameResolution ==
    ResolvedByName =>
        /\ Len(Matches) = 0 =>
              /\ cur.err = <<"no running container found matching: ">> \o args[1]
              /\ cur.beh.reached # "engine" /\ proc = NoProc /\ fs = fs0
        /\ Len(Matches) >= 1 =>
              /\ cur.pid = Matches[1].PID
              /\ cur.err # <<"no running container found matching: ">> \o args[1]
        /\ Len(Matches) = 1 => cur.note = <<>>
        /\ Len(Matches) > 1 => \A i \in 1..Len(Matches) : NoteNames(cur.note, Matches[i].PID)

\* the scan of a process resolved from a pattern that two of three containers match
C13_Witness ==
    /\ ResolvedByName /\ pc = "render"
    /\ Len(Discovered) = 3 /\ Len(Matches) = 2
    /\ cur.pid = 42 /\ cur.err = <<>>
    /\ NoteNames(cur.note, 42) /\ NoteNames(cur.note, 43)

\* the PIDs of the entries of a discovery result, in order
PIDs(entries) == [k \in 1..Len(entries) |-> entries[k].PID]

\* the PIDs of the container processes of procs whose command line holds the
\* pattern, case-insensitively, in the order of procs
PIDsMatching(procs, pattern) ==
    LET hit == SelectSeq(procs, LAMBDA q :
                   /\ isApptainerProcess(q.Cmdline)
                   /\ Contains(ToLower(q.Cmdline), ToLower(pattern)))
    IN  [k \in 1..Len(hit) |-> hit[k].Pid]

\* C14: FindContainersByName returns, in discovery order, exactly the containers
\* whose command line holds the pattern as a case-insensitive substring, for command
\* lines of every length
C14_MatchesCommandLine ==
    (runs.fn = "byname" /\ runs.done) =>
        PIDs(runs.out) = PIDsMatching(runs.in.procs, runs.in.pattern)

\* C15: one discovery call returns no two entries with the same PID
C15_UniquePIDs ==
    (runs.fn = "discover" /\ runs.done) =>
        \A a, b \in 1..Len(runs.out) : runs.out[a].PID = runs.out[b].PID => a = b

\* a discovery that returned three containers out of four processes
C15_Witness ==
    /\ runs.fn = "discover" /\ runs.done
    /\ Len(runs.in.procs) = 4 /\ Len(runs.out) = 3

\* the lines of os-release that start with key
LinesWith(key) == SelectSeq(osRelease, LAMBDA l : l # <<>> /\ Head(l) = key)

\* a value without its double quotes (no value of OsReleaseFiles has an inner quote)
Unquoted(value) == SelectSeq(value, LAMBDA x : x # "\"")

\* C16: the OS description of a live process is "Linux " and the unquoted
\* PRETTY_NAME of its os-release; without the file or without a name line in it the
\* description is "Linux unknown", and the scan goes on
C16_OSDescription ==
    (cmdKind = "running" /\ cur.beh.reached = "engine") =>
        /\ LinesWith("PRETTY_NAME=") # <<>> =>
              cur.result.OSInfo = <<"Linux ">> \o Unquoted(Tail(LinesWith("PRETTY_NAME=")[1]))
        /\ (LinesWith("PRETTY_NAME=") = <<>> /\ LinesWith("NAME=") = <<>>) =>
              cur.result.OSInfo = <<"Linux unknown">>
        /\ proc.state # "none" =>
              \E k \in 1..Len(proc.argv) : proc.argv[k] = <<"uname -a=">> \o cur.result.OSInfo

\* the engine has run on a process whose root has no os-release, and the scan returned
C16_Witness ==
    /\ cmdKind = "running" /\ pc = "render"
    /\ osRelease = <<>>
    /\ cur.beh.reached = "engine" /\ cur.beh.how = "exit" /\ cur.err = <<>>
    /\ cur.result.OSInfo = <<"Linux unknown">>

\* the target of `qscan running` is a number that is no live process
NoSuchProcess == Atoi(args[1]).ok /\ Atoi(args[1]).val \notin LivePids

\* C17: ScanRunning launches the engine only for an existing process whose
\* <root>/etc can be read; otherwise it returns an error, makes no output directory
\* and launches nothing
C17_ProbeBeforeEngine ==
    (cmdKind = "running" /\ pc \in {"running", "render"}) =>
        /\ (proc.state # "none" \/ cur.beh.reached = "engine" \/ fs # fs0) =>
              (rootProbe = "ok" /\ ~NoSuchProcess)
        /\ (rootProbe # "ok" \/ NoSuchProcess) =>
              (cur.err # <<>> /\ proc = NoProc /\ fs = fs0 /\ pc = "render")

\* ScanRunning has returned an error for process 42, whose root cannot be read
C17_Witness ==
    /\ cmdKind = "running" /\ pc = "render"
    /\ rootProbe = "denied" /\ cur.pid = 42
    /\ cur.err = <<"cannot access ">> \o ProcRoot(42) \o <<": permission denied">>

\* ExtractFilesystem has returned after both of its stages were started
ExtractedAndReturned == runs.pc = "done" /\ runs.tar = "exited" /\ runs.untar = "exited"

\* C18: once both stages were started, ExtractFilesystem fails exactly when the
\* destination cannot be read or is empty after both have completed, whatever the
\* exit codes of the stages
C18_OnlyEmptinessFails ==
    ExtractedAndReturned => (runs.err # <<>> <=> (~runs.readOK \/ runs.got = 0))

\* success was reported for a directory holding only part of the image, the
\* serialize stage having exited non-zero
C18_Witness ==
    /\ ExtractedAndReturned
    /\ runs.err = <<>>
    /\ runs.tarCode # 0
    /\ runs.got > 0 /\ runs.got < runs.total

\* name ends in .json and holds word before that ending
JsonNamed(name, word) ==
    /\ HasSuffix(name, <<".", "j", "s", "o", "n">>)
    /\ Contains(SubSeq(name, 1, Len(name) - 5), word)

\* name is matched by pattern number k of the format
MatchedBy(format, k, name) ==
    CASE format = "json" -> JsonNamed(name, <<>>)
      [] format = "spdx" /\ k = 1 -> JsonNamed(name, <<"s", "p", "d", "x">>)
      [] format = "spdx" /\ k = 2 -> HasSuffix(name, <<".", "s", "p", "d", "x">>)
      [] format = "cyclonedx" /\ k = 1 ->
            JsonNamed(name, <<"c", "y", "c", "l", "o", "n", "e", "d", "x">>)
      [] format = "cyclonedx" /\ k = 2 -> JsonNamed(name, <<"c", "d", "x">>)
      [] format = "sarif" /\ k = 1 -> HasSuffix(name, <<".", "s", "a", "r", "i", "f">>)
      [] format = "sarif" /\ k = 2 -> JsonNamed(name, <<"s", "a", "r", "i", "f">>)

\* the names of the directory of this call that pattern k of the format matches
Hits(format, k) ==
    IF ReportDir \in DOMAIN runs.in.files
    THEN {n \in runs.in.files[ReportDir] : MatchedBy(format, k, n)}
    ELSE {}

\* C19: findReports maps each format to the first file of the first of its patterns
\* that matches anything in the output directory, leaves out a format nothing
\* matches, and gives an empty mapping for a missing or unreadable directory
C19_FirstMatchPerFormat ==
    (runs.fn = "reports" /\ runs.done) =>
        /\ DOMAIN runs.out \subseteq Formats
        /\ \A f \in Formats :
              LET k == IF Hits(f, 1) # {} THEN 1
                       ELSE IF f # "json" /\ Hits(f, 2) # {} THEN 2 ELSE 0
              IN  IF k = 0 THEN f \notin DOMAIN runs.out
                  ELSE /\ f \in DOMAIN runs.out
                       /\ \E n \in Hits(f, k) :
                             /\ runs.out[f] = ReportDir \o <<"/">> \o n
                             /\ \A m \in Hits(f, k) : m = n \/ StrLess(n, m)

\* a directory in which both patterns of spdx and both patterns of sarif match
C19_Witness ==
    /\ runs.fn = "reports" /\ runs.done
    /\ Hits("spdx", 1) # {} /\ Hits("spdx", 2) # {}
    /\ Hits("sarif", 1) # {} /\ Hits("sarif", 2) # {}
    /\ "cyclonedx" \notin DOMAIN runs.out
    /\ Cardinality(Hits("json", 1)) >= 3

\* the mode in force: the one set, get-report when none is set
EffectiveMode(c) == IF c.Mode = <<>> THEN <<"get-report">> ELSE c.Mode

\* C20: Validate accepts a configuration without token and POD exactly in mode
\* inventory-only; in every other mode, the default get-report included, it fails
\* for an empty token and otherwise for an empty POD
C20_ValidateByMode ==
    (runs.fn = "validate" /\ runs.done) =>
        LET c == runs.in
            ok == runs.out = <<>>
        IN  /\ (c.Token = <<>> /\ c.Pod = <<>>) =>
                  (ok <=> EffectiveMode(c) = <<"inventory-only">>)
            /\ EffectiveMode(c) = <<"inventory-only">> => ok
            /\ EffectiveMode(c) # <<"inventory-only">> =>
                  /\ c.Token = <<>> => runs.out = <<"Qualys access token required">>
                  /\ (c.Token # <<>> /\ c.Pod = <<>>) => runs.out = <<"Qualys POD required">>
                  /\ (c.Token # <<>> /\ c.Pod # <<>>) => ok

\* with no mode set and a token but no POD, Validate has asked for the POD
C20_Witness ==
    /\ runs.fn = "validate" /\ runs.done
    /\ runs.in.Mode = <<>> /\ runs.in.Token # <<>> /\ runs.in.Pod = <<>>
    /\ runs.out = <<"Qualys POD required">>

\* target i of the batch is an image in which `uname -a` cannot be run
ProbeFails(i) == Abs(args[i]) \in NoUname

\* C21: a failed `uname -a` probe never fails ScanSIF: the OS description is
\* "Linux unknown", the engine is invoked with it, and the only errors the call
\* returns are those of its other steps
C21_ProbeFailureRecovered ==
    cmdKind = "sif" =>
        /\ \A i \in 1..Len(hist) :
              ProbeFails(i) =>
                  /\ hist[i].reached = "engine" =>
                        /\ hist[i].err = <<>>
                        /\ results[i].OSInfo = <<"Linux unknown">>
                  /\ hist[i].err # <<>> =>
                        hist[i].err \in { <<"failed to create temp directory">>,
                                          <<"failed to extract filesystem">>,
                                          <<"failed to create output directory">> }
        /\ (pc = "running" /\ Abs(cur.target) \in NoUname) =>
              \E k \in 1..Len(proc.argv) : proc.argv[k] = <<"uname -a=", "Linux unknown">>

\* the scan of an image whose probe fails has ended with engine exit 0 and no error
C21_Witness ==
    /\ cmdKind = "sif" /\ Len(hist) >= 1
    /\ \E i \in 1..Len(hist) :
          /\ ProbeFails(i)
          /\ hist[i].reached = "engine" /\ hist[i].how = "exit" /\ hist[i].code = 0
          /\ results[i].ExitCode = 0 /\ results[i].Error = <<>>
          /\ results[i].OSInfo = <<"Linux unknown">>

\* the value of member key of a JSON object, <<"absent">> when it has none
Member(obj, key) ==
    LET at == {k \in 1..Len(obj.members) : obj.members[k][1] = key}
    IN  IF at = {} THEN <<"absent">> ELSE obj.members[CHOOSE k \in at : TRUE][2]

\* doc is a JSON object that describes result r
Describes(doc, r) ==
    /\ doc.kind = "object"
    /\ Member(doc, "target") = r.Target
    /\ Member(doc, "type") = r.Type
    /\ Member(doc, "exit_code") = r.ExitCode

\* C22: PrintJSON prints one object per result in input order: the object itself
\* for one result, an array of the objects for more than one
C22_ObjectOrArray ==
    (runs.fn = "json" /\ runs.done) =>
        /\ Len(runs.in) = 1 => Describes(runs.out, runs.in[1])
        /\ Len(runs.in) > 1 =>
              /\ runs.out.kind = "array"
              /\ Len(runs.out.items) = Len(runs.in)
              /\ \A i \in 1..Len(runs.in) : Describes(runs.out.items[i], runs.in[i])

\* three different results were printed as an array of three objects
C22_Witness ==
    /\ runs.fn = "json" /\ runs.done
    /\ Len(runs.in) = 3 /\ runs.in[1] # runs.in[2] /\ runs.in[2] # runs.in[3]
    /\ runs.out.kind = "array"
    /\ Member(runs.out.items[1], "error") = <<"absent">>
    /\ Member(runs.out.items[3], "error") # <<"absent">>

\* C23: during a `qscan sif` batch at most one temporary extraction directory
\* exists, and it is the one of the ScanSIF call in progress: the directory of a
\* target is gone before the next target is resolved, whatever its outcome
C23_OneTempDirAtATime ==
    cmdKind = "sif" =>
        /\ Cardinality(tmpDirs) <= 1
        /\ \A d \in tmpDirs : InCall /\ d = cur.tempDir /\ d = tmpMade
        /\ (pc = "loop" /\ idx <= Len(args)) => tmpDirs = {}

\* the second target has its directory while the first, which failed after its
\* directory was created, has none left
C23_Witness ==
    /\ cmdKind = "sif" /\ InCall /\ idx = 2
    /\ tmpMade = 2 /\ tmpDirs = {2}
    /\ hist[1].err # <<>> /\ hist[1].reached \in {"extract", "mkdirall", "nostart"}

\* the file at the final cache path passes the reuse check of ExtractQScanner
PassesReuseCheck == finalFile.exists /\ finalFile.exec

\* C24: at every moment of concurrent ExtractQScanner calls, a file at the final
\* cache path that passes the reuse check holds the complete extracted contents
C24_ReusableIsComplete ==
    PassesReuseCheck => finalFile.data = AllChunks

\* C25: ExtractFilesystem returns with no stage of the pipeline running: the unpack
\* stage has been killed when the serialize stage failed to start, and the serialize
\* stage was never started when the unpack stage failed to start
C25_NoStageLeftRunning ==
    runs.pc = "done" =>
        /\ runs.tar # "running" /\ runs.untar # "running"
        /\ runs.err = <<"failed to start tar">> => (runs.untar = "killed" /\ runs.tar = "none")
        /\ runs.err = <<"failed to start extraction">> =>
              (runs.tar = "none" /\ runs.untar = "none")

\* the serialize stage failed to start after the unpack stage had been started
C25_Witness ==
    /\ runs.pc = "done" /\ runs.err = <<"failed to start tar">>
    /\ runs.untar = "killed" /\ runs.total > 0

\* text holds word when both are compared without regard to case
HoldsNoCase(text, word) == Contains(ToLower(text), ToLower(word))

\* the signature of a container process: a runtime name with a subcommand token, or
\* the launcher name with the image suffix or a runtime name, all without regard to
\* case
RuntimeSignature(cmdline) ==
    LET runtimeName == \/ HoldsNoCase(cmdline, <<"a", "p", "p", "t", "a", "i", "n", "e", "r">>)
                       \/ HoldsNoCase(cmdline, <<"s", "i", "n", "g", "u", "l", "a", "r", "i", "t", "y">>)
        subcommand == \E w \in { <<"r", "u", "n">>, <<"e", "x", "e", "c">>,
                                 <<"s", "h", "e", "l", "l">>,
                                 <<"i", "n", "s", "t", "a", "n", "c", "e">> } :
                          HoldsNoCase(cmdline, <<" ">> \o w \o <<" ">>)
        launcher == HoldsNoCase(cmdline, <<"s", "t", "a", "r", "t", "e", "r">>)
        imageSuffix == HoldsNoCase(cmdline, <<".", "s", "i", "f">>)
    IN  \/ runtimeName /\ subcommand
        \/ launcher /\ (imageSuffix \/ runtimeName)

\* C26: isApptainerProcess accepts exactly the command lines that hold, without
\* regard to case, a runtime name with a subcommand token, or the launcher name with
\* the image suffix .sif or a runtime name
C26_SignatureExact ==
    (runs.fn = "isapptainer" /\ runs.done) => (runs.out = RuntimeSignature(runs.in))

\* C27: once both stages of the pipeline have been started, ExtractFilesystem
\* eventually returns, whatever the two stages do
C27_ExtractReturns ==
    (runs.pc = "wait") ~> (runs.pc = "done")

\* C28: in the mapping findReports returns, no file is recorded under two format
\* names
C28_OneFormatPerFile ==
    (runs.fn = "reports" /\ runs.done) =>
        \A f, g \in DOMAIN runs.out : runs.out[f] = runs.out[g] => f = g

\* the engine of a call that went as beh was ended by the cancellation of the
\* context: refused at its start, or killed while it ran
EndedByCancel(beh) ==
    /\ beh.reached = "engine"
    /\ \/ beh.how \in KillOutcomes
       \/ beh.how = "nostart" /\ beh.msg = <<"context canceled">>

\* C29: a scan whose engine was ended by the cancellation of the context, before its
\* start or while it ran, returns a result with a non-zero ExitCode
C29_CancelledIsNotSuccess ==
    /\ cmdKind = "sif" =>
          \A i \in 1..Len(results) : EndedByCancel(hist[i]) => results[i].ExitCode # 0
    /\ (cmdKind = "running" /\ pc = "render") =>
          (EndedByCancel(cur.beh) => cur.result.ExitCode # 0)

\* the engine of the first image was killed while it ran, the engine of the second
\* was refused at its start by the cancelled context
C29_Witness ==
    /\ cmdKind = "sif" /\ Len(results) = 2
    /\ hist[1].reached = "engine" /\ hist[1].how = "signal" /\ results[1].ExitCode = -1
    /\ hist[2].reached = "engine" /\ hist[2].how = "nostart"
    /\ hist[2].msg = <<"context canceled">> /\ results[2].ExitCode = 1

\* the target of `qscan running` parses as an integer
NumericTarget == cmdKind = "running" /\ pc \in {"running", "render"} /\ Atoi(args[1]).ok

\* C30: a target that parses as an integer is resolved as that process id when the
\* process exists and fails with "process N does not exist" otherwise; neither
\* discovery nor the kind of the process plays a part
C30_NumberIsAPid ==
    NumericTarget =>
        LET n == Atoi(args[1]).val
        IN  /\ cur.note = <<>>
            /\ cur.err # <<"failed to list processes">>
            /\ cur.err # <<"no running container found matching: ">> \o args[1]
            /\ n \in LivePids => cur.pid = n
            /\ n \notin LivePids =>
                  (cur.pid = 0 /\ cur.err = <<"process ", ToString(n), " does not exist">>)

\* process 41, a shell that discovery does not list, was resolved and scanned
C30_Witness ==
    /\ NumericTarget /\ pc = "render"
    /\ cur.pid = 41 /\ cur.err = <<>> /\ cur.beh.reached = "engine"
    /\ \A k \in 1..Len(Discovered) : Discovered[k].PID # 41

====
